---- MODULE Spec2Model ----
(***************************************************************************)
(* A model of the Context7 MCP server's documentation pipeline:            *)
(*   core/cache.py                  CacheManager (in-process and Redis)     *)
(*   tools/library_resolver.py      LibraryResolver registry                *)
(*   tools/documentation_fetcher.py DocumentationFetcher                    *)
(* Python strings are tuples of one-character strings, so that joining,    *)
(* slicing, searching and tokenising are computed as the code computes     *)
(* them.  Time is an integer number of seconds.                            *)
(***************************************************************************)
EXTENDS Integers, Sequences, FiniteSets, TLC

VARIABLES
    now,             \* datetime.utcnow(), in seconds
    cache_enabled,   \* CacheManager._cache_enabled (TRUE: the Redis backend)
    memory_cache,    \* CacheManager._memory_cache, in dict insertion order
    redis,           \* the keys held by the Redis server
    registry,        \* DocumentationFetcher.library_resolver._registry
    last_update,     \* LibraryResolver._last_update
    pc,              \* position of the request being served
    request,         \* arguments of the fetch_documentation call being served
    loc,             \* its local variables
    response,        \* what the last fetch_documentation call returned or raised
    hist,            \* what the call being served has done so far (observation only)
    nreq,            \* number of fetch_documentation calls started
    memo,            \* per cache key, the last fresh result stored (observation only)
    cop,             \* the last CacheManager operation and what it returned
    cin,             \* input of the function applied (_combine_content, cache keys)
    cout,            \* its output
    resolvers,       \* the server's LibraryResolver objects: registry, timestamp, lock
    tasks,           \* the requests the server is handling at once, and where each is
    server           \* Context7MCPServer: initialized, and the message being handled

vars == <<now, cache_enabled, memory_cache, redis, registry, last_update, pc,
          request, loc, response, hist, nreq, memo, cop, cin, cout, resolvers,
          tasks, server>>

\* Python's None: where an object is expected, and where a str is expected
\* (no string is this tuple: the characters of a string are single characters)
None == [none |-> TRUE]
NoneStr == <<"None">>

\* Context7MCPServer.__init__: not initialized, and no message received yet
NewServer == [initialized |-> FALSE, message |-> None]

\* ------------------------------------------------------------------ bounds

\* Largest clock value explored.
MaxTime == 2
\* Number of requests the server handles at once.
MaxTasks == 2
\* Number of resolve-library-id and get-library-docs requests explored.
MaxCalls == 4
\* the requests of a behaviour checked for termination
MaxLiveCalls == 3
\* Longest time between the reading of the clock in CacheManager.set and the
\* arrival of the SETEX at the Redis server.
MaxLag == 1
\* Number of fetch_documentation calls explored in one run.
MaxRequests == 2
\* Largest token budget and longest fragment list given to _combine_content,
\* and the number of times it is called on one list.
MaxBudget == 9
MaxFragments == 3
MaxCombineCalls == 2
\* The code's thresholds, scaled down to the size of the modelled texts:
\* "remaining_tokens > 100" of _combine_content,
MinRemainingTokens == 1
\* "len(content) < 500" and "len(content) > 2000" of _calculate_quality_score,
ShortContentLen == 8
LongContentLen == 20
\* "limit=10" of the two process.extract calls and "all_matches[:10]" of
\* resolve_library,
ExtractLimit == 2
MatchesLimit == 2
\* "len(self._memory_cache) > 1000" and "[:100]" of CacheManager.set,
MemoryCacheLimit == 2
EvictionCount == 1
\* Settings.CACHE_TTL_SECONDS (3600 by default),
CACHE_TTL_SECONDS == 1
\* and Settings.REGISTRY_UPDATE_INTERVAL_HOURS (24 by default), in clock ticks.
REGISTRY_UPDATE_INTERVAL == 1

\* ------------------------------------------------- Python string helpers

Max2(a, b) == IF a >= b THEN a ELSE b

RECURSIVE Concat(_)
\* "".join(parts)
Concat(parts) ==
    IF parts = <<>> THEN <<>> ELSE Head(parts) \o Concat(Tail(parts))

RECURSIVE Join(_, _)
\* sep.join(parts)
Join(sep, parts) ==
    IF parts = <<>> THEN <<>>
    ELSE IF Len(parts) = 1 THEN Head(parts)
    ELSE Head(parts) \o sep \o Join(sep, Tail(parts))

\* s.rfind(c): the largest 0-based index of c in s, or -1
RFind(s, c) ==
    LET hits == {i \in 1..Len(s) : s[i] = c}
    IN  IF hits = {} THEN -1
        ELSE (CHOOSE i \in hits : \A j \in hits : j <= i) - 1

\* s[:n] for n >= 0
Prefix(s, n) == SubSeq(s, 1, IF n < Len(s) THEN n ELSE Len(s))

\* needle in s
Contains(s, needle) ==
    \E i \in 1..(Len(s) - Len(needle) + 1) :
        SubSeq(s, i, i + Len(needle) - 1) = needle

\* str(n) for a non-negative integer n
RECURSIVE IntToStr(_)
IntToStr(n) ==
    LET digit == <<"0", "1", "2", "3", "4", "5", "6", "7", "8", "9">>
    IN  IF n < 10 THEN <<digit[n + 1]>>
        ELSE IntToStr(n \div 10) \o <<digit[(n % 10) + 1]>>

\* ------------------------------------------ tokens (documentation_fetcher)

WhiteSpace == {" ", "\n", "\t"}
\* "BQ" stands for the backquote character, which a TLA+ string cannot hold
Punctuation == {".", "-", "[", "]", "(", ")", "#", "BQ", ":", "/"}
\* \s and \w of the token pattern; every other character is a word character
IsSpace(c) == c \in WhiteSpace
IsWord(c) == c \notin WhiteSpace /\ c \notin Punctuation

RECURSIVE Scan(_, _, _, _)
\* re.findall(r'\b\w+\b|[^\w\s]', text), scanning from position i with the
\* word run `word` open and the tokens `acc` found
Scan(text, i, word, acc) ==
    IF i > Len(text)
    THEN IF word = <<>> THEN acc ELSE Append(acc, word)
    ELSE LET c == text[i]
             closed == IF word = <<>> THEN acc ELSE Append(acc, word)
         IN  IF IsWord(c) THEN Scan(text, i + 1, Append(word, c), acc)
             ELSE IF IsSpace(c) THEN Scan(text, i + 1, <<>>, closed)
             ELSE Scan(text, i + 1, <<>>, Append(closed, <<c>>))

token_pattern_findall(text) == Scan(text, 1, <<>>, <<>>)

count_tokens(text) ==
    IF text = <<>> THEN 0 ELSE Len(token_pattern_findall(text))

TRUNCATION_MARKER ==
    <<"\n", "\n", "[", "C", "o", "n", "t", "e", "n", "t", " ", "t", "r", "u",
      "n", "c", "a", "t", "e", "d", ".", ".", ".", "]">>

truncate_content(content, max_tokens) ==
    LET tokens == token_pattern_findall(content)
        truncated_text == Join(<<" ">>, Prefix(tokens, max_tokens))
        last_period == RFind(truncated_text, ".")
        last_newline == RFind(truncated_text, "\n")
        cut_point == Max2(last_period, last_newline)
    IN  IF Len(tokens) <= max_tokens THEN content
        ELSE (IF 10 * cut_point > 8 * Len(truncated_text)
              THEN Prefix(truncated_text, cut_point + 1)
              ELSE truncated_text) \o TRUNCATION_MARKER

\* Scores are in tenths: 5 is the code's 0.5.
calculate_quality_score(content) ==
    LET code == Contains(content, <<"BQ", "BQ", "BQ">>) \/ Contains(content, <<"BQ">>)
        \* re.search(r'^#+\s', content, re.MULTILINE)
        header == \E i \in 1..Len(content) :
                      /\ i = 1 \/ content[i - 1] = "\n"
                      /\ content[i] = "#"
                      /\ \E j \in (i + 1)..Len(content) :
                             /\ IsSpace(content[j])
                             /\ \A k \in i..(j - 1) : content[k] = "#"
        link == Contains(content, <<"[">>) /\ Contains(content, <<"]", "(">>)
        score == 5 + (IF code THEN 2 ELSE 0) + (IF header THEN 1 ELSE 0)
                   + (IF link THEN 1 ELSE 0)
                   - (IF Len(content) < ShortContentLen THEN 2 ELSE 0)
                   + (IF Len(content) > LongContentLen THEN 1 ELSE 0)
    IN  IF content = <<>> THEN 0
        ELSE IF score > 10 THEN 10 ELSE IF score < 0 THEN 0 ELSE score

\* ---------------------------------------------------- stable list sorting

\* Python's sorted()/list.sort() on the integer keys key[i] of s[i]: ascending,
\* and elements with equal keys keep their order
StableSort(s, key) ==
    LET rank(i) == Cardinality({j \in 1..Len(s) :
                       key[j] < key[i] \/ (key[j] = key[i] /\ j < i)}) + 1
    IN  [p \in 1..Len(s) |-> s[CHOOSE i \in 1..Len(s) : rank(i) = p]]

\* ------------------------------------------------------- _combine_content

SEPARATOR == <<"\n", "\n", "-", "-", "-", "\n", "\n">>

\* the list sorted by ascending quality_score and then reversed, which turns
\* the order of fragments of equal score around
sort_by_quality_reversing(content_list) ==
    LET ascending == StableSort(content_list,
                         [i \in 1..Len(content_list) |-> content_list[i].quality_score])
    IN  [i \in 1..Len(content_list) |-> ascending[Len(content_list) + 1 - i]]

\* content_list.sort(key=lambda x: x.quality_score, reverse=True)
sort_by_quality(content_list) ==
    StableSort(content_list,
               [i \in 1..Len(content_list) |-> 0 - content_list[i].quality_score])

\* a truncation threshold of no tokens at all
leaves_room_any(remaining_tokens) ==
    remaining_tokens > 0

\* if remaining_tokens > 100: the budget left is worth a truncated fragment
leaves_room(remaining_tokens) ==
    remaining_tokens > MinRemainingTokens

RECURSIVE combine_loop(_, _, _, _, _)
\* the for loop of _combine_content from its i-th element on
combine_loop(content_list, i, current_tokens, combined_parts, max_tokens) ==
    IF i > Len(content_list) THEN combined_parts
    ELSE LET content == content_list[i]
             content_tokens == count_tokens(content.content)
             remaining_tokens == max_tokens - current_tokens
         IN  IF current_tokens + content_tokens > max_tokens
             THEN IF leaves_room(remaining_tokens)
                  THEN Append(combined_parts,
                              truncate_content(content.content, remaining_tokens))
                  ELSE combined_parts
             ELSE combine_loop(content_list, i + 1, current_tokens + content_tokens,
                               Append(combined_parts, content.content), max_tokens)

combine_content(content_list, topic, max_tokens) ==
    IF content_list = <<>> THEN <<>>
    ELSE Join(SEPARATOR,
              combine_loop(sort_by_quality(content_list), 1, 0, <<>>, max_tokens))

\* ------------------------------------------------------------ CacheManager

\* datetime.isoformat() and datetime.fromisoformat(): the text of a timestamp.
\* ISO timestamps compare as strings the way their times compare.
isoformat(t) == [iso |-> t]
IsIsoText(s) == DOMAIN s = {"iso"}
fromisoformat(s) == s.iso

\* Python values: a dict is a record, a str a sequence of characters, a tuple
\* (1, 2) the record [tuple |-> <<1, 2>>] and a list [1, 2] the record
\* [list |-> <<1, 2>>].
IsTuple(v) == DOMAIN v = {"tuple"}

\* json.dumps(cache_data, default=str) and json.loads: JSON has no tuples, so a
\* tuple value is written as an array and read back as a list; dicts with
\* string keys, strings, numbers, lists and None come back as they were
json_dumps(cache_data) ==
    [json |-> [cache_data EXCEPT
                 !.value = IF IsTuple(@) THEN [list |-> @.tuple] ELSE @]]
json_loads(text) == text.json

\* an expiry test that finds every entry expired
is_expired_always(cache_data, t) ==
    TRUE

\* an expiry test that finds no entry expired
is_expired_never(cache_data, t) ==
    FALSE

\* CacheManager._is_expired at time t
is_expired(cache_data, t) ==
    IF IsIsoText(cache_data.expires_at)
    THEN t > fromisoformat(cache_data.expires_at)
    ELSE TRUE

\* Python dicts (_memory_cache, _registry): a sequence of [key, data] in
\* insertion order
DictKeys(mc) == {mc[i].key : i \in 1..Len(mc)}
DictIndex(mc, key) == CHOOSE i \in 1..Len(mc) : mc[i].key = key
DictGet(mc, key) == mc[DictIndex(mc, key)].data
DictDel(mc, keys) == SelectSeq(mc, LAMBDA e : e.key \notin keys)
DictPut(mc, key, data) ==
    IF key \in DictKeys(mc)
    THEN [mc EXCEPT ![DictIndex(mc, key)] = [key |-> key, data |-> data]]
    ELSE Append(mc, [key |-> key, data |-> data])

\* the Redis server: a set of [key, text, deadline]; a key is gone once its
\* deadline has passed
RedisKeys(rd) == {e.key : e \in rd}
RedisText(rd, key) == (CHOOSE e \in rd : e.key = key).text
RedisDel(rd, keys) == {e \in rd : e.key \notin keys}
RedisExpire(rd, t) == {e \in rd : e.deadline >= t}

\* a get that hands out the expired value when the Redis delete raises
cache_get_stale_on_failure(enabled, mc, rd, key, t, fail_get, fail_delete) ==
    IF enabled
    THEN IF fail_get \/ key \notin RedisKeys(rd)
         THEN [memory_cache |-> mc, redis |-> rd, value |-> None]
         ELSE LET data == json_loads(RedisText(rd, key))
              IN  IF is_expired(data, t) /\ ~fail_delete
                  THEN [memory_cache |-> mc, redis |-> RedisDel(rd, {key}),
                        value |-> None]
                  ELSE [memory_cache |-> mc, redis |-> rd, value |-> data.value]
    ELSE IF key \notin DictKeys(mc)
         THEN [memory_cache |-> mc, redis |-> rd, value |-> None]
         ELSE IF is_expired(DictGet(mc, key), t)
              THEN [memory_cache |-> DictDel(mc, {key}), redis |-> rd, value |-> None]
              ELSE [memory_cache |-> mc, redis |-> rd,
                    value |-> DictGet(mc, key).value]

\* CacheManager.get at time t; fail_get and fail_delete say whether the Redis
\* call raises.  Gives the backends afterwards and the value returned.
cache_get(enabled, mc, rd, key, t, fail_get, fail_delete) ==
    IF enabled
    THEN IF fail_get \/ key \notin RedisKeys(rd)
         THEN [memory_cache |-> mc, redis |-> rd, value |-> None]
         ELSE LET data == json_loads(RedisText(rd, key))
              IN  IF is_expired(data, t)
                  THEN [memory_cache |-> mc,
                        redis |-> IF fail_delete THEN rd ELSE RedisDel(rd, {key}),
                        value |-> None]
                  ELSE [memory_cache |-> mc, redis |-> rd, value |-> data.value]
    ELSE IF key \notin DictKeys(mc)
         THEN [memory_cache |-> mc, redis |-> rd, value |-> None]
         ELSE IF is_expired(DictGet(mc, key), t)
              THEN [memory_cache |-> DictDel(mc, {key}), redis |-> rd, value |-> None]
              ELSE [memory_cache |-> mc, redis |-> rd,
                    value |-> DictGet(mc, key).value]

\* an eviction that takes the first entries of the dict, whatever their age
oldest_keys_unsorted(mc) ==
    {mc[i].key : i \in 1..(IF EvictionCount < Len(mc)
                           THEN EvictionCount ELSE Len(mc))}

\* the keys of the EvictionCount oldest entries: sorted(keys, key=created_at)[:100]
oldest_keys(mc) ==
    LET sorted == StableSort(mc, [i \in 1..Len(mc) |->
                                     fromisoformat(mc[i].data.created_at)])
    IN  {sorted[i].key : i \in 1..(IF EvictionCount < Len(mc)
                                   THEN EvictionCount ELSE Len(mc))}

\* CacheManager.set at time t; ttl_arg is None or [seconds |-> an integer];
\* fail_set says whether the Redis call raises (SETEX itself refuses a ttl that
\* is not positive); lag is the time between the reading of the clock for
\* expires_at and the start of the key's life on the Redis server
cache_set(enabled, mc, rd, key, value, ttl_arg, t, fail_set, lag) ==
    LET ttl == IF ttl_arg = None THEN CACHE_TTL_SECONDS ELSE ttl_arg.seconds
        cache_data == [value |-> value,
                       expires_at |-> isoformat(t + ttl),
                       created_at |-> isoformat(t)]
    IN  IF enabled
        THEN IF fail_set \/ ttl <= 0
             THEN [memory_cache |-> mc, redis |-> rd]
             ELSE [memory_cache |-> mc,
                   redis |-> RedisDel(rd, {key}) \cup
                             {[key |-> key, text |-> json_dumps(cache_data),
                               deadline |-> t + ttl + lag]}]
        ELSE LET kept == IF Len(mc) > MemoryCacheLimit
                         THEN DictDel(mc, oldest_keys(mc))
                         ELSE mc
             IN  [memory_cache |-> DictPut(kept, key, cache_data), redis |-> rd]

\* CacheManager.delete
cache_delete(enabled, mc, rd, key, fail) ==
    IF enabled
    THEN [memory_cache |-> mc, redis |-> IF fail THEN rd ELSE RedisDel(rd, {key})]
    ELSE [memory_cache |-> DictDel(mc, {key}), redis |-> rd]

\* CacheManager.clear
cache_clear(enabled, mc, rd, fail) ==
    IF enabled
    THEN [memory_cache |-> mc, redis |-> IF fail THEN rd ELSE {}]
    ELSE [memory_cache |-> <<>>, redis |-> rd]

\* CacheManager.get_cache_key
get_cache_key(prefix, args) == Join(<<":">>, <<prefix>> \o args)

\* ------------------------------------------------------- LibraryResolver

LOWER == <<"a", "b", "c", "d", "e", "f", "g", "h", "i", "j", "k", "l", "m",
           "n", "o", "p", "q", "r", "s", "t", "u", "v", "w", "x", "y", "z">>
UPPER == <<"A", "B", "C", "D", "E", "F", "G", "H", "I", "J", "K", "L", "M",
           "N", "O", "P", "Q", "R", "S", "T", "U", "V", "W", "X", "Y", "Z">>
IsLetter(c) == \E i \in 1..26 : c = LOWER[i] \/ c = UPPER[i]
LowerChar(c) ==
    IF \E i \in 1..26 : c = UPPER[i] THEN LOWER[CHOOSE i \in 1..26 : c = UPPER[i]] ELSE c
UpperChar(c) ==
    IF \E i \in 1..26 : c = LOWER[i] THEN UPPER[CHOOSE i \in 1..26 : c = LOWER[i]] ELSE c
\* str.lower()
Lower(s) == [i \in 1..Len(s) |-> LowerChar(s[i])]
\* str.title(): each run of letters starts upper-case and goes on lower-case
Title(s) ==
    [i \in 1..Len(s) |->
        IF i = 1 \/ ~IsLetter(s[i - 1]) THEN UpperChar(s[i]) ELSE LowerChar(s[i])]

ID_NEXT ==
    <<"/", "v", "e", "r", "c", "e", "l", "/", "n", "e", "x", "t", ".", "j",
      "s">>
NAME_NEXT == <<"N", "e", "x", "t", ".", "j", "s">>
ID_SUPABASE ==
    <<"/", "s", "u", "p", "a", "b", "a", "s", "e", "/", "s", "u", "p", "a",
      "b", "a", "s", "e">>
NAME_SUPABASE == <<"S", "u", "p", "a", "b", "a", "s", "e">>
ID_REACT ==
    <<"/", "f", "a", "c", "e", "b", "o", "o", "k", "/", "r", "e", "a", "c",
      "t">>
NAME_REACT == <<"R", "e", "a", "c", "t">>
ID_TAILWIND ==
    <<"/", "t", "a", "i", "l", "w", "i", "n", "d", "l", "a", "b", "s", "/",
      "t", "a", "i", "l", "w", "i", "n", "d", "c", "s", "s">>
NAME_TAILWIND ==
    <<"T", "a", "i", "l", "w", "i", "n", "d", " ", "C", "S", "S">>
ID_FASTAPI ==
    <<"/", "f", "a", "s", "t", "a", "p", "i", "/", "f", "a", "s", "t", "a",
      "p", "i">>
NAME_FASTAPI == <<"F", "a", "s", "t", "A", "P", "I">>
ID_TYPESCRIPT ==
    <<"/", "m", "i", "c", "r", "o", "s", "o", "f", "t", "/", "t", "y", "p",
      "e", "s", "c", "r", "i", "p", "t">>
NAME_TYPESCRIPT == <<"T", "y", "p", "e", "S", "c", "r", "i", "p", "t">>

DocumentationSource(url, type, priority) ==
    [url |-> url, type |-> type, priority |-> priority, enabled |-> TRUE]

LibraryInfo(id, name, sources, popularity_score) ==
    [id |-> id, name |-> name, documentation_sources |-> sources,
     popularity_score |-> popularity_score]

\* popularity scores are in hundredths
builtin_libraries ==
    <<LibraryInfo(ID_NEXT, NAME_NEXT,
          <<DocumentationSource("https://nextjs.org/docs", "official_docs", 1),
            DocumentationSource("https://github.com/vercel/next.js", "github", 2)>>, 95),
      LibraryInfo(ID_SUPABASE, NAME_SUPABASE,
          <<DocumentationSource("https://supabase.com/docs", "official_docs", 1),
            DocumentationSource("https://github.com/supabase/supabase", "github", 2)>>, 90),
      LibraryInfo(ID_REACT, NAME_REACT,
          <<DocumentationSource("https://react.dev", "official_docs", 1),
            DocumentationSource("https://github.com/facebook/react", "github", 2)>>, 98),
      LibraryInfo(ID_TAILWIND, NAME_TAILWIND,
          <<DocumentationSource("https://tailwindcss.com/docs", "official_docs", 1),
            DocumentationSource("https://github.com/tailwindlabs/tailwindcss", "github", 2)>>, 92),
      LibraryInfo(ID_FASTAPI, NAME_FASTAPI,
          <<DocumentationSource("https://fastapi.tiangolo.com", "official_docs", 1),
            DocumentationSource("https://github.com/tiangolo/fastapi", "github", 2)>>, 94),
      LibraryInfo(ID_TYPESCRIPT, NAME_TYPESCRIPT,
          <<DocumentationSource("https://www.typescriptlang.org/docs", "official_docs", 1),
            DocumentationSource("https://github.com/microsoft/TypeScript", "github", 2)>>, 96)>>

\* self._registry[library.id] = library; self._registry[library.name.lower()] = library
registry_put(reg, library) ==
    DictPut(DictPut(reg, library.id, library), Lower(library.name), library)

RECURSIVE registry_put_all(_, _)
registry_put_all(reg, libraries) ==
    IF libraries = <<>> THEN reg
    ELSE registry_put_all(registry_put(reg, Head(libraries)), Tail(libraries))

initialize_builtin_libraries == registry_put_all(<<>>, builtin_libraries)

SourceTypes == {"github", "official_docs", "api_reference", "npm_registry",
                "pypi_registry", "community"}

\* whether DocumentationSource(**source_data) validates
ValidSourceData(source_data) ==
    /\ {"url", "type", "priority"} \subseteq DOMAIN source_data
    /\ source_data.type \in SourceTypes
    /\ source_data.priority \in 1..10

\* whether the body of the per-entry try block runs without raising; an entry
\* is [dict |-> TRUE, fields |-> the dict] or [dict |-> FALSE] (not a JSON object)
ValidLibData(lib_data) ==
    /\ lib_data.dict
    /\ {"id", "name"} \subseteq DOMAIN lib_data.fields
    /\ \A i \in 1..Len(lib_data.fields.documentation_sources) :
           ValidSourceData(lib_data.fields.documentation_sources[i])

SourceOfData(source_data) ==
    [url |-> source_data.url, type |-> source_data.type,
     priority |-> source_data.priority,
     enabled |-> IF "enabled" \in DOMAIN source_data THEN source_data.enabled ELSE TRUE]

LibraryOfData(fields) ==
    LibraryInfo(fields.id, fields.name,
                [i \in 1..Len(fields.documentation_sources) |->
                    SourceOfData(fields.documentation_sources[i])],
                IF "popularity_score" \in DOMAIN fields
                THEN fields.popularity_score ELSE 50)

RECURSIVE process_libraries(_, _)
\* the for loop of _process_registry_data: an entry that fails is skipped, but
\* the handler's own lib_data.get raises on an entry that is no dict, which
\* ends the loop (the outer except logs it)
process_libraries(reg, libraries) ==
    IF libraries = <<>> THEN reg
    ELSE LET lib_data == Head(libraries)
         IN  IF ~lib_data.dict THEN reg
             ELSE IF ~ValidLibData(lib_data)
             THEN process_libraries(reg, Tail(libraries))
             ELSE process_libraries(registry_put(reg, LibraryOfData(lib_data.fields)),
                                    Tail(libraries))

\* _process_registry_data building the registry anew from the feed
process_registry_data_replacing(reg, registry_data) ==
    IF registry_data.dict THEN process_libraries(<<>>, registry_data.libraries)
    ELSE reg

\* _process_registry_data; registry_data is [dict |-> TRUE, libraries |-> ..] or
\* [dict |-> FALSE], on which registry_data.get raises
process_registry_data(reg, registry_data) ==
    IF registry_data.dict THEN process_libraries(reg, registry_data.libraries)
    ELSE reg

\* _should_update_registry at time t
should_update_registry(last, t) ==
    IF last = None THEN TRUE ELSE t - last.utc > REGISTRY_UPDATE_INTERVAL

\* _update_registry emptying the registry when the refresh fails
update_registry_emptying(reg, last, t, reply) ==
    IF ~reply.raised /\ reply.status = 200
    THEN [registry |-> process_registry_data(reg, reply.json),
          last_update |-> [utc |-> t], exception |-> None]
    ELSE [registry |-> <<>>, last_update |-> last, exception |-> None]

\* what aiohttp raises when the request to the feed fails
ClientError == [kind |-> "ClientError", message |-> <<>>]

\* _update_registry without its try block: a failed request reaches the caller
update_registry_unguarded(reg, last, t, reply) ==
    IF ~reply.raised /\ reply.status = 200
    THEN [registry |-> process_registry_data(reg, reply.json),
          last_update |-> [utc |-> t], exception |-> None]
    ELSE [registry |-> reg, last_update |-> last,
          exception |-> IF reply.raised THEN ClientError ELSE None]

\* _update_registry at time t; reply is what the feed's server answered:
\* [raised |-> whether the request or response.json() raised,
\*  status |-> the HTTP status, json |-> the document]
\* exception is what the call raises to its caller: nothing, as the try block
\* of lines 254-269 logs whatever was raised.
update_registry(reg, last, t, reply) ==
    IF ~reply.raised /\ reply.status = 200
    THEN [registry |-> process_registry_data(reg, reply.json),
          last_update |-> [utc |-> t], exception |-> None]
    ELSE [registry |-> reg, last_update |-> last, exception |-> None]

\* _ensure_registry_updated run to its end by one caller nobody interleaves with
ensure_registry_updated(reg, last, t, reply) ==
    IF should_update_registry(last, t)
    THEN update_registry(reg, last, t, reply)
    ELSE [registry |-> reg, last_update |-> last, exception |-> None]

\* self._registry.get(library_id)
registry_get(reg, library_id) ==
    IF library_id \in DictKeys(reg) THEN DictGet(reg, library_id) ELSE None

\* the LibraryResolver objects of one Context7MCPServer: its own, which serves
\* resolve-library-id, and the one its DocumentationFetcher builds for itself,
\* which serves get-library-docs
SERVER_RESOLVER == "server.library_resolver"
FETCHER_RESOLVER == "server.documentation_fetcher.library_resolver"
Resolvers == {SERVER_RESOLVER, FETCHER_RESOLVER}

\* LibraryResolver.__init__; the asyncio.Lock is whether it is held and the
\* queue of the tasks waiting for it
NewLibraryResolver ==
    [registry |-> initialize_builtin_libraries,
     last_update |-> None,
     locked |-> FALSE,
     waiters |-> <<>>]

\* the requests handled at once; outcome and reply tell how the last
\* _ensure_registry_updated of the task ended (observation only)
Tasks == 1..MaxTasks
IdleTask ==
    [pc |-> "idle", resolver |-> SERVER_RESOLVER, waited |-> FALSE,
     outcome |-> "none", reply |-> None]

\* the first test of _ensure_registry_updated, made without the lock
first_check(last, t) == should_update_registry(last, t)

\* the test repeated once the lock is held, without it
double_check_skipped(last, t) == TRUE

\* the test repeated once the lock is held
double_check(last, t) == should_update_registry(last, t)

\* --------------------------------------------------- DocumentationFetcher

S_docs == <<"d", "o", "c", "s">>
S_default == <<"d", "e", "f", "a", "u", "l", "t">>
S_readme_header == <<"#", " ", "R", "E", "A", "D", "M", "E", "\n", "\n">>
S_header_mark == <<"#", " ">>
S_blank_line == <<"\n", "\n">>
S_library_not_found ==
    <<"L", "i", "b", "r", "a", "r", "y", " ", "n", "o", "t", " ", "f", "o",
      "u", "n", "d", ":", " ">>
S_no_documentation ==
    <<"N", "o", " ", "d", "o", "c", "u", "m", "e", "n", "t", "a", "t", "i",
      "o", "n", " ", "c", "o", "u", "l", "d", " ", "b", "e", " ", "f", "e",
      "t", "c", "h", "e", "d", " ", "f", "o", "r", " ">>

\* bool(s) of an Optional[str]
Truthy(s) == s # NoneStr /\ s # <<>>

DocumentationContent(library_id, content, source_url, source_type, topic) ==
    [library_id |-> library_id, content |-> content, source_url |-> source_url,
     source_type |-> source_type, topic |-> topic,
     token_count |-> count_tokens(content), quality_score |-> 0]

\* What the web answers while one source is fetched: web.raises (the strategy
\* raises), and the text found, or NoneStr, for the README probes (web.readme),
\* the docs/<topic>.md probes (web.docs), the topic pages (web.topic_page) and
\* the source's own page (web.main_page), the last two as _fetch_html_content
\* gives them.
fetch_github_docs(source, library, topic, web) ==
    LET readme_part == IF web.readme # NoneStr
                       THEN <<S_readme_header \o web.readme>> ELSE <<>>
        docs_part == IF Truthy(topic) /\ web.docs # NoneStr
                     THEN <<S_header_mark \o Title(topic) \o S_blank_line \o web.docs>>
                     ELSE <<>>
        content_parts == readme_part \o docs_part
    IN  IF content_parts = <<>> THEN None
        ELSE DocumentationContent(library.id, Join(SEPARATOR, content_parts),
                                  [url |-> source.url, topic |-> NoneStr],
                                  source.type, topic)

fetch_official_docs(source, library, topic, web) ==
    IF Truthy(topic) /\ Truthy(web.topic_page)
    THEN DocumentationContent(library.id, web.topic_page,
                              [url |-> source.url, topic |-> topic],
                              source.type, topic)
    ELSE IF Truthy(web.main_page)
    THEN DocumentationContent(library.id, web.main_page,
                              [url |-> source.url, topic |-> NoneStr],
                              source.type, topic)
    ELSE None

fetch_api_reference(source, library, topic, web) ==
    fetch_official_docs(source, library, topic, web)

fetch_generic_docs(source, library, topic, web) ==
    IF Truthy(web.main_page)
    THEN DocumentationContent(library.id, web.main_page,
                              [url |-> source.url, topic |-> NoneStr],
                              source.type, topic)
    ELSE None

fetch_from_source(source, library, topic, web) ==
    IF web.raises THEN None
    ELSE IF source.type = "github" THEN fetch_github_docs(source, library, topic, web)
    ELSE IF source.type = "official_docs"
    THEN fetch_official_docs(source, library, topic, web)
    ELSE IF source.type = "api_reference"
    THEN fetch_api_reference(source, library, topic, web)
    ELSE fetch_generic_docs(source, library, topic, web)

\* a sort by priority that puts sources of equal priority in reverse order
sort_sources_unstable(documentation_sources) ==
    StableSort(documentation_sources,
               [i \in 1..Len(documentation_sources) |->
                   documentation_sources[i].priority * (Len(documentation_sources) + 1)
                   - i])

\* sorted(library.documentation_sources, key=lambda x: x.priority)
sort_sources(documentation_sources) ==
    StableSort(documentation_sources,
               [i \in 1..Len(documentation_sources) |->
                   documentation_sources[i].priority])

RECURSIVE SumTokens(_)
\* sum(self._count_tokens(c.content) for c in all_content)
SumTokens(all_content) ==
    IF all_content = <<>> THEN 0
    ELSE count_tokens(Head(all_content).content) + SumTokens(Tail(all_content))

\* the cache key of a request
request_cache_key(library_id, topic, max_tokens) ==
    get_cache_key(S_docs, <<library_id,
                            IF Truthy(topic) THEN topic ELSE S_default,
                            IntToStr(max_tokens)>>)

\* the DocumentationResponse built at the end of fetch_documentation
DocumentationResponse(library_id, library, all_content, sources_used, topic, max_tokens) ==
    LET combined_content == combine_content(all_content, topic, max_tokens)
    IN  [library_id |-> library_id,
         content |-> combined_content,
         sources |-> sources_used,
         token_count |-> count_tokens(combined_content),
         topic |-> topic,
         cached |-> FALSE,
         quality_score |-> calculate_quality_score(combined_content),
         metadata |-> [library_name |-> library.name,
                       sources_count |-> Len(sources_used),
                       processing_time |-> "N/A"]]

\* result.dict(exclude={"cached"})
dict_exclude_cached(result) ==
    [k \in DOMAIN result \ {"cached"} |-> result[k]]

\* cached_result["cached"] = True
dict_set_cached(cached_result) ==
    [k \in DOMAIN cached_result \cup {"cached"} |->
        IF k = "cached" THEN TRUE ELSE cached_result[k]]

\* raise ValueError(message)
ValueError(message) == [kind |-> "ValueError", message |-> message]
Returned(result) == [kind |-> "DocumentationResponse", result |-> result]

\* ------------------------------------------------ the requests explored

\* a library only the remote feed knows
ID_XY == <<"/", "x", "/", "y">>
NAME_XY == <<"X", "Y">>
\* an id no registry holds, and a topic holding a colon
ID_REACT_X ==
    <<"/", "f", "a", "c", "e", "b", "o", "o", "k", "/", "r", "e", "a", "c",
      "t", ":", "x">>
TOPIC_X_DEFAULT == <<"x", ":", "d", "e", "f", "a", "u", "l", "t">>
\* the text of a documentation page
DOC_TEXT == <<"U", "s", "e", " ", "i", "t", ".">>

Request(library_id, topic, max_tokens) ==
    [library_id |-> library_id, topic |-> topic, max_tokens |-> max_tokens]

\* A page has 3 tokens and a README 5: the first source alone meets a budget of
\* 3, two sources meet 7, and the last two requests share one cache key.
Requests ==
    {Request(ID_XY, NoneStr, 0), Request(ID_XY, NoneStr, 3),
     Request(ID_XY, NoneStr, 7), Request(ID_REACT, TOPIC_X_DEFAULT, 3),
     Request(ID_REACT_X, NoneStr, 3)}

\* the feed: a library with three sources, two of them of the same priority,
\* and an entry without an id
FEED_DOCUMENT ==
    [dict |-> TRUE,
     libraries |->
        <<[dict |-> TRUE,
           fields |-> [id |-> ID_XY, name |-> NAME_XY,
                       documentation_sources |->
                          <<[url |-> "https://github.com/x/y", type |-> "github",
                             priority |-> 2],
                            [url |-> "https://x.dev/docs", type |-> "official_docs",
                             priority |-> 1],
                            [url |-> "https://x.dev/forum", type |-> "community",
                             priority |-> 2, enabled |-> FALSE]>>,
                       popularity_score |-> 70]],
          [dict |-> TRUE,
           fields |-> [name |-> NAME_REACT, documentation_sources |-> <<>>]]>>]

FeedReplies == {[raised |-> TRUE, status |-> 200, json |-> None],
                [raised |-> FALSE, status |-> 503, json |-> None],
                [raised |-> FALSE, status |-> 200, json |-> FEED_DOCUMENT]}

Web(raises, readme, docs, topic_page, main_page) ==
    [raises |-> raises, readme |-> readme, docs |-> docs,
     topic_page |-> topic_page, main_page |-> main_page]

WebReplies ==
    {Web(TRUE, NoneStr, NoneStr, NoneStr, NoneStr),
     Web(FALSE, NoneStr, NoneStr, NoneStr, NoneStr),
     Web(FALSE, NoneStr, NoneStr, NoneStr, <<>>),
     Web(FALSE, NoneStr, NoneStr, NoneStr, DOC_TEXT),
     Web(FALSE, DOC_TEXT, NoneStr, NoneStr, NoneStr),
     Web(FALSE, DOC_TEXT, DOC_TEXT, DOC_TEXT, DOC_TEXT)}

\* whether a Redis call may raise
Failures == IF cache_enabled THEN BOOLEAN ELSE {FALSE}
\* how long after the clock was read a SETEX may reach the Redis server
Lags == IF cache_enabled THEN 0..MaxLag ELSE {0}

\* whether the backend in use holds key, and whether what it holds has expired
Holds(mc, rd, key) ==
    IF cache_enabled THEN key \in RedisKeys(rd) ELSE key \in DictKeys(mc)
HeldData(key) ==
    IF cache_enabled THEN json_loads(RedisText(redis, key))
    ELSE DictGet(memory_cache, key)
PastExpiry(key) ==
    /\ Holds(memory_cache, redis, key)
    /\ now > fromisoformat(HeldData(key).expires_at)

\* ------------------------------------------------- fetch_documentation

NoLocals == [cache_key |-> NoneStr, library |-> None, sorted_sources |-> <<>>,
             i |-> 0, all_content |-> <<>>, sources_used |-> <<>>]

\* The observation of one call: the sources attempted, each with the running
\* token total at that moment; the registry lookups made; whether a Redis call
\* raised; and the fresh result remembered for the call's key when it began.
NoHistory == [attempted |-> <<>>, lookups |-> 0, cache_failed |-> FALSE,
              remembered |-> None]

\* lines 62-75: the cache is asked first; a hit marks the dict it got as cached
\* and returns it
FetchStart(library_id, topic, max_tokens, fail_get, fail_delete) ==
    /\ pc = "idle"
    /\ nreq < MaxRequests
    /\ LET cache_key == request_cache_key(library_id, topic, max_tokens)
           got == cache_get(cache_enabled, memory_cache, redis, cache_key, now,
                            fail_get, fail_delete)
           cached_result == dict_set_cached(got.value)
           live == cache_key \in DictKeys(memo) /\ now < DictGet(memo, cache_key).expires
       IN  /\ nreq' = nreq + 1
           /\ request' = Request(library_id, topic, max_tokens)
           /\ hist' = [NoHistory EXCEPT
                         !.cache_failed = fail_get \/ (fail_delete /\ PastExpiry(cache_key)),
                         !.remembered = IF live THEN DictGet(memo, cache_key) ELSE None]
           /\ redis' = got.redis
           /\ IF got.value # None
              THEN /\ memory_cache' =
                         IF cache_enabled THEN got.memory_cache
                         ELSE DictPut(got.memory_cache, cache_key,
                                      [DictGet(got.memory_cache, cache_key)
                                          EXCEPT !.value = cached_result])
                   /\ response' = Returned(cached_result)
                   /\ pc' = "idle"
                   /\ loc' = NoLocals
              ELSE /\ memory_cache' = got.memory_cache
                   /\ response' = None
                   /\ pc' = "lookup"
                   /\ loc' = [NoLocals EXCEPT !.cache_key = cache_key]
    /\ UNCHANGED <<server, resolvers, tasks, now, cache_enabled, registry, last_update, memo, cop, cin, cout>>

\* lines 77-99: get_library_by_id (which first brings the registry up to date)
\* and the sorting of the library's sources
Lookup(reply) ==
    /\ pc = "lookup"
    /\ LET fresh == ensure_registry_updated(registry, last_update, now, reply)
           library == registry_get(fresh.registry, request.library_id)
       IN  /\ registry' = fresh.registry
           /\ last_update' = fresh.last_update
           /\ hist' = [hist EXCEPT !.lookups = @ + 1]
           /\ IF fresh.exception # None
              THEN /\ response' = fresh.exception
                   /\ pc' = "idle"
                   /\ loc' = NoLocals
              ELSE IF library = None
              THEN /\ response' = ValueError(S_library_not_found \o request.library_id)
                   /\ pc' = "idle"
                   /\ loc' = NoLocals
              ELSE /\ response' = response
                   /\ loc' = [loc EXCEPT
                                !.library = library,
                                !.sorted_sources = sort_sources(library.documentation_sources),
                                !.i = 1]
                   /\ pc' = IF library.documentation_sources = <<>>
                            THEN "finish" ELSE "fetch"
    /\ UNCHANGED <<server, resolvers, tasks, now, cache_enabled, memory_cache, redis, request, nreq, memo,
                   cop, cin, cout>>

\* the loop breaking only when the total exceeds the budget
loop_goes_on_until_above(content, all_content, max_tokens, i, sorted_sources) ==
    /\ i < Len(sorted_sources)
    /\ ~(content # None /\ SumTokens(all_content) > max_tokens)

\* the loop ending at the first source that gives no content
loop_ends_on_failure(content, all_content, max_tokens, i, sorted_sources) ==
    /\ i < Len(sorted_sources)
    /\ content # None
    /\ SumTokens(all_content) < max_tokens

\* lines 101-115: after the turn for sorted_sources[i] the loop takes another
\* turn when a source is left and the turn did not break; it breaks only after
\* a fetch that gave content, when the total has reached max_tokens
loop_goes_on(content, all_content, max_tokens, i, sorted_sources) ==
    /\ i < Len(sorted_sources)
    /\ ~(content # None /\ SumTokens(all_content) >= max_tokens)

\* lines 101-115: one turn of the loop over the sorted sources
FetchSource(web) ==
    /\ pc = "fetch"
    /\ LET source == loc.sorted_sources[loc.i]
           content == fetch_from_source(source, loc.library, request.topic, web)
           all_content == IF content # None THEN Append(loc.all_content, content)
                          ELSE loc.all_content
           sources_used == IF content # None THEN Append(loc.sources_used, source.url)
                           ELSE loc.sources_used
       IN  /\ hist' = [hist EXCEPT !.attempted =
                          Append(@, [source |-> source,
                                     total_before |-> SumTokens(loc.all_content),
                                     failed |-> content = None])]
           /\ loc' = [loc EXCEPT !.all_content = all_content,
                                 !.sources_used = sources_used,
                                 !.i = @ + 1]
           /\ pc' = IF loop_goes_on(content, all_content, request.max_tokens,
                                     loc.i, loc.sorted_sources)
                    THEN "fetch" ELSE "finish"
    /\ UNCHANGED <<server, resolvers, tasks, now, cache_enabled, memory_cache, redis, registry, last_update,
                   request, response, nreq, memo, cop, cin, cout>>

\* fetch_documentation remembering a failure in the cache as it does a result
FinishCachingErrors(fail_set, lag) ==
    /\ pc = "finish"
    /\ LET value == IF loc.all_content = <<>>
                    THEN ValueError(S_no_documentation \o request.library_id)
                    ELSE dict_exclude_cached(
                             DocumentationResponse(request.library_id, loc.library,
                                 loc.all_content, loc.sources_used, request.topic,
                                 request.max_tokens))
           stored == cache_set(cache_enabled, memory_cache, redis, loc.cache_key,
                               value, [seconds |-> CACHE_TTL_SECONDS], now,
                               fail_set, lag)
       IN  /\ response' = IF loc.all_content = <<>> THEN value
                          ELSE Returned([value EXCEPT !.cached = FALSE])
           /\ memory_cache' = stored.memory_cache
           /\ redis' = stored.redis
    /\ pc' = "idle"
    /\ loc' = NoLocals
    /\ UNCHANGED <<server, resolvers, tasks, now, cache_enabled, registry, last_update,
                   request, nreq, cop, cin, cout, memo, hist>>

\* lines 117-145: no content is an error; otherwise the content is combined,
\* the response built, cached without its "cached" field, and returned
Finish(fail_set, lag) ==
    /\ pc = "finish"
    /\ IF loc.all_content = <<>>
       THEN /\ response' = ValueError(S_no_documentation \o request.library_id)
            /\ UNCHANGED <<server, memory_cache, redis, memo, hist>>
       ELSE LET result == DocumentationResponse(request.library_id, loc.library,
                              loc.all_content, loc.sources_used, request.topic,
                              request.max_tokens)
                stored == cache_set(cache_enabled, memory_cache, redis, loc.cache_key,
                                    dict_exclude_cached(result),
                                    [seconds |-> CACHE_TTL_SECONDS], now, fail_set,
                                    lag)
                evicted == DictKeys(memory_cache) \ DictKeys(stored.memory_cache)
                kept == DictDel(memo, evicted \cup {loc.cache_key})
            IN  /\ response' = Returned(result)
                /\ memory_cache' = stored.memory_cache
                /\ redis' = stored.redis
                /\ hist' = [hist EXCEPT !.cache_failed = @ \/ fail_set]
                /\ memo' = IF fail_set THEN kept
                           ELSE DictPut(kept, loc.cache_key,
                                        [request |-> request, result |-> result,
                                         expires |-> now + CACHE_TTL_SECONDS])
    /\ pc' = "idle"
    /\ loc' = NoLocals
    /\ UNCHANGED <<server, resolvers, tasks, now, cache_enabled, registry, last_update, request, nreq, cop,
                   cin, cout>>

\* the clock advances; the Redis server drops the keys whose time has come
Tick ==
    /\ now < MaxTime
    /\ now' = now + 1
    /\ redis' = RedisExpire(redis, now')
    /\ UNCHANGED <<server, resolvers, tasks, cache_enabled, memory_cache, registry, last_update, pc, request,
                   loc, response, hist, nreq, memo, cop, cin, cout>>

InitFetch ==
    /\ now = 0
    /\ cache_enabled \in BOOLEAN
    /\ memory_cache = <<>>
    /\ redis = {}
    /\ registry = initialize_builtin_libraries
    /\ last_update = None
    /\ pc = "idle"
    /\ request = None
    /\ loc = NoLocals
    /\ response = None
    /\ hist = NoHistory
    /\ nreq = 0
    /\ resolvers = [r \in Resolvers |-> NewLibraryResolver]
    /\ tasks = [t \in Tasks |-> IdleTask]
    /\ server = NewServer
    /\ memo = <<>>
    /\ cop = None
    /\ cin = None
    /\ cout = None

NextFetch ==
    \/ \E r \in Requests, fail_get \in Failures, fail_delete \in Failures :
          FetchStart(r.library_id, r.topic, r.max_tokens, fail_get, fail_delete)
    \/ \E reply \in FeedReplies : Lookup(reply)
    \/ \E web \in WebReplies : FetchSource(web)
    \/ \E fail_set \in Failures, lag \in Lags : Finish(fail_set, lag)
    \/ Tick

SpecFetch == InitFetch /\ [][NextFetch]_vars

\* --------------------------------------------- fetch_documentation: claims

\* the position of a source in the library record's source list
PositionOf(source) ==
    CHOOSE k \in DOMAIN loc.library.documentation_sources :
        loc.library.documentation_sources[k] = source

\* the sources of the library record that come before the k-th one: those of
\* lower priority, and those of the same priority listed earlier
SourcesBefore(k) ==
    LET sources == loc.library.documentation_sources
    IN  {m \in DOMAIN sources :
            \/ sources[m].priority < sources[k].priority
            \/ sources[m].priority = sources[k].priority /\ m < k}

\* when the loop over the sources has ended, every source was attempted or the
\* budget is met
LoopEndedRightly ==
    pc = "finish" =>
        \/ Len(hist.attempted) = Len(loc.sorted_sources)
        \/ SumTokens(loc.all_content) >= request.max_tokens

\* C1 as stated: no source fetch is started once the running token total of the
\* fragments obtained is at least the token budget, and the loop goes on while
\* the total is below the budget and sources remain.
C1_AsStated ==
    request # None =>
        /\ \A i \in DOMAIN hist.attempted :
              hist.attempted[i].total_before < request.max_tokens
        /\ LoopEndedRightly

\* C1: a source fetch started after a fetch that yielded a fragment, or under a
\* token budget of at least 1, starts with the running token total below the
\* budget; and the loop goes on while the total is below the budget and
\* sources remain.
C1_EarlyStop ==
    request # None =>
        /\ \A i \in DOMAIN hist.attempted :
              (\/ request.max_tokens >= 1
               \/ i > 1 /\ ~hist.attempted[i - 1].failed)
              => hist.attempted[i].total_before < request.max_tokens
        /\ LoopEndedRightly

\* the first of three sources alone met the budget and the loop ended there
C1_Witness ==
    /\ pc = "finish"
    /\ request.max_tokens >= 1
    /\ Len(loc.sorted_sources) = 3
    /\ Len(hist.attempted) = 1
    /\ SumTokens(loc.all_content) >= request.max_tokens

\* C2: within one request the i-th source attempted is the i-th of the library
\* record's sources by priority, two sources of equal priority in the order
\* the record lists them.
C2_PriorityOrder ==
    loc.library # None =>
        \A i \in DOMAIN hist.attempted :
            Cardinality(SourcesBefore(PositionOf(hist.attempted[i].source))) = i - 1

\* three sources were attempted, the two of priority 2 in the record's order
\* after the one of priority 1 that the record lists between them
C2_Witness ==
    /\ loc.library # None
    /\ Len(hist.attempted) = 3
    /\ PositionOf(hist.attempted[1].source) = 2
    /\ PositionOf(hist.attempted[2].source) = 1
    /\ PositionOf(hist.attempted[3].source) = 3

\* C3: a source fetch that fails does not abort the request: the fragments
\* and source urls obtained so far are kept, no error is returned, and if a
\* source is left and the budget is not met the next source is attempted.
C3_FailureContinues ==
    [][(/\ pc = "fetch"
        /\ Len(hist'.attempted) = Len(hist.attempted) + 1
        /\ hist'.attempted[Len(hist'.attempted)].failed)
       => /\ loc'.all_content = loc.all_content
          /\ loc'.sources_used = loc.sources_used
          /\ response' = None
          /\ pc' \in {"fetch", "finish"}
          /\ (/\ Len(hist'.attempted) < Len(loc.sorted_sources)
              /\ SumTokens(loc.all_content) < request.max_tokens)
             => pc' = "fetch"]_vars

\* a source failed after a fragment was obtained, and the next source was
\* attempted and gave a second fragment
C3_Witness ==
    /\ Len(hist.attempted) = 3
    /\ ~hist.attempted[1].failed
    /\ hist.attempted[2].failed
    /\ ~hist.attempted[3].failed
    /\ Len(loc.all_content) = 2

\* C4 as stated: a request for an id with no registry entry ends with the
\* library-not-found error before any source is fetched, a request for a
\* registered library whose every source yields no fragment ends with the
\* no-documentation error, the two errors differ, and neither request returns
\* a DocumentationResponse.
C4_AsStated ==
    (pc = "idle" /\ request # None) =>
        /\ registry_get(registry, request.library_id) = None
           => /\ response = ValueError(S_library_not_found \o request.library_id)
              /\ hist.attempted = <<>>
        /\ (/\ registry_get(registry, request.library_id) # None
            /\ hist.attempted # <<>>
            /\ \A i \in DOMAIN hist.attempted : hist.attempted[i].failed)
           => response = ValueError(S_no_documentation \o request.library_id)
        /\ ValueError(S_library_not_found \o request.library_id)
           # ValueError(S_no_documentation \o request.library_id)

\* C7: a request identical to one that missed the cache and succeeded, made
\* before that result's time to live has passed, with no Redis failure and no
\* eviction or overwrite of the entry, returns the same content, sources and
\* token count with cached = TRUE, and makes no registry lookup and no
\* source fetch.
C7_HitRepeats ==
    (/\ request # None
     /\ hist.remembered # None
     /\ hist.remembered.request = request
     /\ ~hist.cache_failed)
    => /\ pc = "idle"
       /\ response.kind = "DocumentationResponse"
       /\ response.result.content = hist.remembered.result.content
       /\ response.result.sources = hist.remembered.result.sources
       /\ response.result.token_count = hist.remembered.result.token_count
       /\ response.result.cached
       /\ hist.lookups = 0
       /\ hist.attempted = <<>>

\* an identical request was served from the cache on either backend
C7_Witness ==
    /\ request # None
    /\ hist.remembered # None
    /\ hist.remembered.request = request
    /\ ~hist.cache_failed
    /\ response.kind = "DocumentationResponse"
    /\ response.result.cached
    /\ response.result.sources # <<>>

\* the payloads the cache backends hold
StoredPayloads ==
    {memory_cache[i].data.value : i \in DOMAIN memory_cache}
    \cup {json_loads(RedisText(redis, key)).value : key \in RedisKeys(redis)}

\* C8 as stated: no payload held by the cache for a documentation result has a
\* "cached" field, also after cache hits served it; and a returned result has
\* cached = TRUE exactly when a cache hit produced it.
C8_AsStated ==
    /\ \A payload \in StoredPayloads : "cached" \notin DOMAIN payload
    /\ (pc = "idle" /\ request # None /\ response.kind = "DocumentationResponse")
       => (response.result.cached <=> hist.lookups = 0)


\* C11, for fetch_documentation: a call whose cache get raises goes on as on a
\* cache miss, and a call whose cache set raises still returns its result.
C11_FetchProceeds ==
    [][/\ (nreq' = nreq + 1 /\ hist'.cache_failed)
          => (pc' = "lookup" /\ response' = None)
       /\ (pc = "finish" /\ now' = now /\ hist'.cache_failed
           /\ loc.all_content # <<>>)
          => /\ pc' = "idle"
             /\ response'.kind = "DocumentationResponse"
             /\ ~response'.result.cached
             /\ response'.result.sources = loc.sources_used]_vars

\* ------------------------------------- _combine_content on its own

\* fragment texts of 3, 4, 1 and 4 tokens; the last has a late full stop
TEXT_A == <<"a", " ", "b", " ", "c">>
TEXT_B == <<"d", " ", "e", ".", " ", "f">>
TEXT_C == <<"g">>
TEXT_D ==
    <<"h", "h", "h", "h", "h", "h", "h", "h", "h", "h", "h", "h", ".", " ",
      "i", " ", "j">>

Fragment(content, quality_score) ==
    [DocumentationContent(ID_REACT, content,
                          [url |-> "https://react.dev", topic |-> NoneStr],
                          "official_docs", NoneStr)
        EXCEPT !.quality_score = quality_score]

Fragments == {Fragment(TEXT_A, 0), Fragment(TEXT_B, 0), Fragment(TEXT_C, 0),
              Fragment(TEXT_D, 0), Fragment(TEXT_A, 5), Fragment(TEXT_C, 5)}

FragmentLists == UNION {[1..n -> Fragments] : n \in 0..MaxFragments}

\* one call of _combine_content: it sorts the caller's list in place
Combine ==
    /\ Len(cout) < MaxCombineCalls
    /\ cout' = Append(cout, combine_content(cin.content_list, cin.topic, cin.max_tokens))
    /\ cin' = [cin EXCEPT !.content_list = sort_by_quality(@)]
    /\ UNCHANGED <<server, resolvers, tasks, now, cache_enabled, memory_cache, redis, registry, last_update,
                   pc, request, loc, response, hist, nreq, memo, cop>>

InitCombine ==
    /\ now = 0
    /\ cache_enabled = FALSE
    /\ memory_cache = <<>>
    /\ redis = {}
    /\ registry = initialize_builtin_libraries
    /\ last_update = None
    /\ pc = "idle"
    /\ request = None
    /\ loc = NoLocals
    /\ response = None
    /\ hist = NoHistory
    /\ nreq = 0
    /\ resolvers = [r \in Resolvers |-> NewLibraryResolver]
    /\ tasks = [t \in Tasks |-> IdleTask]
    /\ server = NewServer
    /\ memo = <<>>
    /\ cop = None
    /\ \E content_list \in FragmentLists, max_tokens \in 0..MaxBudget :
          cin = [content_list |-> content_list, topic |-> NoneStr,
                 max_tokens |-> max_tokens, given |-> content_list]
    /\ cout = <<>>

NextCombine == Combine

SpecCombine == InitCombine /\ [][NextCombine]_vars

\* ---------------------------------------------- _combine_content: claims

\* C5 as stated: whatever the fragments and the token budget, the combined
\* content, separators and truncation marker included, has at most
\* max_tokens tokens.
C5_AsStated ==
    cin # None =>
        \A k \in DOMAIN cout : count_tokens(cout[k]) <= cin.max_tokens

RECURSIVE TokensOfFirst(_, _)
\* the tokens of the first n fragments of a list
TokensOfFirst(content_list, n) ==
    IF n = 0 THEN 0
    ELSE TokensOfFirst(content_list, n - 1) + count_tokens(content_list[n].content)

\* how many leading fragments of a list fit the budget entirely
FittingCount(content_list, max_tokens) ==
    Cardinality({n \in DOMAIN content_list :
                    TokensOfFirst(content_list, n) <= max_tokens})

\* whether text s ends with text e
EndsWith(s, e) ==
    /\ Len(s) >= Len(e)
    /\ SubSeq(s, Len(s) - Len(e) + 1, Len(s)) = e

\* C6: of the fragments in the order _combine_content has put them, those that
\* fit the budget entirely are included in full, joined by the separator; the
\* first that does not fit is included, cut by _truncate_content to the budget
\* left and ending with the truncation marker, exactly when more than
\* MinRemainingTokens tokens of budget are left, otherwise it is left out; and
\* nothing after it is included.
C6_FitThenTruncate ==
    (cin # None /\ cout # <<>>) =>
        LET content_list == cin.content_list
            n == FittingCount(content_list, cin.max_tokens)
            remaining_tokens == cin.max_tokens - TokensOfFirst(content_list, n)
            in_full == [i \in 1..n |-> content_list[i].content]
            cut == truncate_content(content_list[n + 1].content, remaining_tokens)
        IN  \A k \in DOMAIN cout :
               IF n = Len(content_list)
               THEN cout[k] = Join(SEPARATOR, in_full)
               ELSE IF remaining_tokens > MinRemainingTokens
               THEN /\ cout[k] = Join(SEPARATOR, Append(in_full, cut))
                    /\ EndsWith(cut, TRUNCATION_MARKER)
                    /\ count_tokens(cut) <= remaining_tokens + count_tokens(TRUNCATION_MARKER)
               ELSE cout[k] = Join(SEPARATOR, in_full)

\* three fragments of 3 tokens under a budget that leaves the third more than
\* MinRemainingTokens: two in full, then the third cut and marked
C6_Witness ==
    /\ cin # None
    /\ cout # <<>>
    /\ Len(cin.content_list) = 3
    /\ FittingCount(cin.content_list, cin.max_tokens) = 2
    /\ cin.max_tokens - TokensOfFirst(cin.content_list, 2) > MinRemainingTokens
    /\ EndsWith(cout[1], TRUNCATION_MARKER)


\* ------------------------------------------------ CacheManager on its own

CacheKeys == {<<"k", "1">>, <<"k", "2">>}
\* a dict and a tuple
CacheValues == {[data |-> "value1"], [tuple |-> <<1, 2>>]}
CacheTtls == {None, [seconds |-> 0], [seconds |-> 2]}


CacheGet(key, fail_get, fail_delete) ==
    /\ LET got == cache_get(cache_enabled, memory_cache, redis, key, now,
                            fail_get, fail_delete)
       IN  /\ memory_cache' = got.memory_cache
           /\ redis' = got.redis
           /\ cop' = [op |-> "get", key |-> key, result |-> got.value,
                      failed |-> fail_get \/ (fail_delete /\ PastExpiry(key)),
                      held |-> Holds(memory_cache, redis, key),
                      expired |-> PastExpiry(key),
                      held_after |-> Holds(got.memory_cache, got.redis, key)]
    /\ UNCHANGED <<server, resolvers, tasks, now, cache_enabled, registry, last_update, pc, request, loc,
                   response, hist, nreq, memo, cin, cout>>

CacheSet(key, value, ttl, fail_set, lag) ==
    /\ LET put == cache_set(cache_enabled, memory_cache, redis, key, value, ttl,
                            now, fail_set, lag)
       IN  /\ memory_cache' = put.memory_cache
           /\ redis' = put.redis
           /\ cop' = [op |-> "set", key |-> key, value |-> value, ttl |-> ttl,
                      failed |-> fail_set, at |-> now,
                      size_before |-> Len(memory_cache)]
    /\ UNCHANGED <<server, resolvers, tasks, now, cache_enabled, registry, last_update, pc, request, loc,
                   response, hist, nreq, memo, cin, cout>>

CacheDelete(key, fail) ==
    /\ LET gone == cache_delete(cache_enabled, memory_cache, redis, key, fail)
       IN  /\ memory_cache' = gone.memory_cache
           /\ redis' = gone.redis
           /\ cop' = [op |-> "delete", key |-> key, failed |-> fail]
    /\ UNCHANGED <<server, resolvers, tasks, now, cache_enabled, registry, last_update, pc, request, loc,
                   response, hist, nreq, memo, cin, cout>>

CacheClear(fail) ==
    /\ LET gone == cache_clear(cache_enabled, memory_cache, redis, fail)
       IN  /\ memory_cache' = gone.memory_cache
           /\ redis' = gone.redis
           /\ cop' = [op |-> "clear", failed |-> fail]
    /\ UNCHANGED <<server, resolvers, tasks, now, cache_enabled, registry, last_update, pc, request, loc,
                   response, hist, nreq, memo, cin, cout>>

InitCache ==
    /\ now = 0
    /\ cache_enabled \in BOOLEAN
    /\ memory_cache = <<>>
    /\ redis = {}
    /\ registry = initialize_builtin_libraries
    /\ last_update = None
    /\ pc = "idle"
    /\ request = None
    /\ loc = NoLocals
    /\ response = None
    /\ hist = NoHistory
    /\ nreq = 0
    /\ resolvers = [r \in Resolvers |-> NewLibraryResolver]
    /\ tasks = [t \in Tasks |-> IdleTask]
    /\ server = NewServer
    /\ memo = <<>>
    /\ cop = [op |-> "init"]
    /\ cin = None
    /\ cout = None

NextCache ==
    \/ \E key \in CacheKeys, fail_get \in Failures, fail_delete \in Failures :
          CacheGet(key, fail_get, fail_delete)
    \/ \E key \in CacheKeys, value \in CacheValues, ttl \in CacheTtls,
          fail_set \in Failures, lag \in Lags :
          CacheSet(key, value, ttl, fail_set, lag)
    \/ \E key \in CacheKeys, fail \in Failures : CacheDelete(key, fail)
    \/ \E fail \in Failures : CacheClear(fail)
    \/ Tick

SpecCache == InitCache /\ [][NextCache]_vars

\* ----------------------------------- the in-memory backend on its own

\* one key more than the backend is meant to hold
MemoryKeys == {<<"k", IntToStr(i)>> : i \in 1..(MemoryCacheLimit + 1)}
MemoryTtls == {None, [seconds |-> 0]}

InitMemory ==
    /\ InitCache
    /\ cache_enabled = FALSE

NextMemory ==
    \/ \E key \in MemoryKeys : CacheGet(key, FALSE, FALSE)
    \/ \E key \in MemoryKeys, ttl \in MemoryTtls :
          CacheSet(key, [data |-> "value1"], ttl, FALSE, 0)
    \/ \E key \in MemoryKeys : CacheDelete(key, FALSE)
    \/ CacheClear(FALSE)
    \/ Tick

SpecMemory == InitMemory /\ [][NextMemory]_vars

\* C12 as stated: the in-memory backend never holds more than the maximum
\* number of entries.
C12_AsStated ==
    Len(memory_cache) <= MemoryCacheLimit

\* the time an entry of _memory_cache was created
CreatedAt(entry) == fromisoformat(entry.data.created_at)

\* C13: when a set on the in-memory backend evicts, the entries it removes are
\* EvictionCount entries none of which is more recent than any entry it
\* leaves, and the entries it leaves are unchanged; and a get leaves every
\* entry it does not remove as it was, in the same order.
C13_EvictsOldest ==
    [][/\ (/\ cop'.op = "set"
           /\ now' = now
           /\ Len(memory_cache) > MemoryCacheLimit)
          => LET Others == {i \in DOMAIN memory_cache :
                               memory_cache[i].key # cop'.key}
                 Gone == {i \in Others :
                             memory_cache[i].key \notin DictKeys(memory_cache')}
             IN  /\ \A i \in Others \ Gone :
                       DictGet(memory_cache', memory_cache[i].key)
                       = memory_cache[i].data
                 /\ \E Evicted \in SUBSET DOMAIN memory_cache :
                       /\ Cardinality(Evicted) = EvictionCount
                       /\ Evicted \cap Others = Gone
                       /\ \A e \in Evicted, k \in DOMAIN memory_cache \ Evicted :
                             CreatedAt(memory_cache[k]) >= CreatedAt(memory_cache[e])
       /\ (cop'.op = "get" /\ now' = now)
          => memory_cache' \in
                {memory_cache,
                 SelectSeq(memory_cache, LAMBDA e : e.key # cop'.key)}]_vars

\* a set found the backend above its limit and evicted another key's entry
C13_Witness ==
    /\ cop.op = "set"
    /\ cop.size_before > MemoryCacheLimit
    /\ Len(memory_cache) < cop.size_before


\* ------------------------------------------------- CacheManager: claims

TtlSeconds(ttl) == IF ttl = None THEN CACHE_TTL_SECONDS ELSE ttl.seconds

\* C10 as stated: after set(key, value, ttl) with a positive ttl and no Redis
\* failure, whatever the cache held, a get of the key before expires_at
\* returns value.
C10_AsStated ==
    (/\ cop.op = "set"
     /\ ~cop.failed
     /\ TtlSeconds(cop.ttl) > 0
     /\ now < cop.at + TtlSeconds(cop.ttl))
    => cache_get(cache_enabled, memory_cache, redis, cop.key, now, FALSE, FALSE).value
       = cop.value

\* C11: a Redis call that raises during get, set, delete or clear is not
\* passed on to the caller: the operation returns, a get returns None, and the
\* backends are left as they were.
C11_FailureIsMiss ==
    [][(now' = now /\ cop'.op # "init" /\ cop'.failed)
       => /\ memory_cache' = memory_cache
          /\ redis' = redis
          /\ cop'.op = "get" => cop'.result = None]_vars

\* a get raised while the backend held an entry for the key, and returned None
C11_Witness ==
    /\ cop.op = "get"
    /\ cop.failed
    /\ cop.held
    /\ cop.result = None
    /\ cop.held_after

\* C15 as stated: every entry a set has written has expires_at later than
\* created_at.
C15_AsStated ==
    /\ \A i \in DOMAIN memory_cache :
          fromisoformat(memory_cache[i].data.expires_at)
          > fromisoformat(memory_cache[i].data.created_at)
    /\ \A key \in RedisKeys(redis) :
          fromisoformat(json_loads(RedisText(redis, key)).expires_at)
          > fromisoformat(json_loads(RedisText(redis, key)).created_at)

\* --------------------------------------- the cache keys of two requests

KeyRequests ==
    {Request(library_id, topic, max_tokens) :
        library_id \in {ID_REACT, ID_REACT_X, ID_XY},
        topic \in {NoneStr, S_default, TOPIC_X_DEFAULT},
        max_tokens \in {3, 7}}

\* lines 67-69 of fetch_documentation, for each of the two requests
MakeKeys ==
    /\ cout = None
    /\ cout' = [a |-> request_cache_key(cin.a.library_id, cin.a.topic,
                                        cin.a.max_tokens),
                b |-> request_cache_key(cin.b.library_id, cin.b.topic,
                                        cin.b.max_tokens)]
    /\ UNCHANGED <<server, resolvers, tasks, now, cache_enabled, memory_cache, redis, registry, last_update,
                   pc, request, loc, response, hist, nreq, memo, cop, cin>>

InitKey ==
    /\ now = 0
    /\ cache_enabled = FALSE
    /\ memory_cache = <<>>
    /\ redis = {}
    /\ registry = initialize_builtin_libraries
    /\ last_update = None
    /\ pc = "idle"
    /\ request = None
    /\ loc = NoLocals
    /\ response = None
    /\ hist = NoHistory
    /\ nreq = 0
    /\ resolvers = [r \in Resolvers |-> NewLibraryResolver]
    /\ tasks = [t \in Tasks |-> IdleTask]
    /\ server = NewServer
    /\ memo = <<>>
    /\ cop = None
    /\ \E a \in KeyRequests, b \in KeyRequests : cin = [a |-> a, b |-> b]
    /\ cout = None

NextKey == MakeKeys

SpecKey == InitKey /\ [][NextKey]_vars

\* C14 as stated: the cache key of a request is docs:<library_id>:<topic, or
\* default when absent>:<max_tokens>, and two requests that differ in
\* library_id, in topic or in max_tokens do not get the same key.
C14_AsStated ==
    cout # None =>
        /\ cout.a = S_docs \o <<":">> \o cin.a.library_id \o <<":">>
                    \o (IF cin.a.topic = NoneStr THEN S_default ELSE cin.a.topic)
                    \o <<":">> \o IntToStr(cin.a.max_tokens)
        /\ cin.a # cin.b => cout.a # cout.b

\* ------------------------------------- requests refreshing the registries

\* a feed whose top-level document is a JSON array
FEED_ARRAY == [dict |-> FALSE]

\* a feed with an entry that is a JSON string, then a well-formed entry
FEED_WITH_TEXT_ENTRY ==
    [dict |-> TRUE,
     libraries |->
        <<[dict |-> FALSE],
          [dict |-> TRUE,
           fields |-> [id |-> ID_XY, name |-> NAME_XY,
                       documentation_sources |->
                          <<[url |-> "https://x.dev/docs", type |-> "official_docs",
                             priority |-> 1]>>]]>>]

\* a feed with a library that has the display name of a built-in one
FEED_SAME_NAME ==
    [dict |-> TRUE,
     libraries |->
        <<[dict |-> TRUE,
           fields |-> [id |-> ID_XY, name |-> NAME_REACT,
                       documentation_sources |-> <<>>]]>>]

RefreshReplies ==
    FeedReplies \cup {[raised |-> FALSE, status |-> 200, json |-> FEED_ARRAY],
                      [raised |-> FALSE, status |-> 200, json |-> FEED_WITH_TEXT_ENTRY],
                      [raised |-> FALSE, status |-> 200, json |-> FEED_SAME_NAME]}

\* a request arrives: resolve_library or get_library_by_id calls
\* _ensure_registry_updated, which runs up to its first suspension: it
\* returns at once (fresh), or takes the free lock and sends the request to
\* the feed, or waits for the lock
Call(t, r) ==
    /\ tasks[t].pc = "idle"
    /\ nreq < MaxCalls
    /\ nreq' = nreq + 1
    /\ LET res == resolvers[r]
       IN  IF ~first_check(res.last_update, now)
           THEN /\ tasks' = [tasks EXCEPT ![t] =
                                [pc |-> "idle", resolver |-> r, waited |-> FALSE,
                                 outcome |-> "fresh", reply |-> None]]
                /\ resolvers' = resolvers
           ELSE IF ~res.locked /\ res.waiters = <<>>
           THEN IF double_check(res.last_update, now)
                THEN /\ tasks' = [tasks EXCEPT ![t] =
                                     [pc |-> "refreshing", resolver |-> r,
                                      waited |-> FALSE, outcome |-> "none",
                                      reply |-> None]]
                     /\ resolvers' = [resolvers EXCEPT ![r].locked = TRUE]
                ELSE /\ tasks' = [tasks EXCEPT ![t] =
                                     [pc |-> "idle", resolver |-> r,
                                      waited |-> FALSE, outcome |-> "rechecked",
                                      reply |-> None]]
                     /\ resolvers' = resolvers
           ELSE /\ tasks' = [tasks EXCEPT ![t] =
                                [pc |-> "waiting", resolver |-> r, waited |-> TRUE,
                                 outcome |-> "none", reply |-> None]]
                /\ resolvers' = [resolvers EXCEPT ![r].waiters = Append(@, t)]
    /\ UNCHANGED <<server, now, cache_enabled, memory_cache, redis, registry, last_update,
                   pc, request, loc, response, hist, memo, cop, cin, cout>>

\* the lock is free and the task is the first in its queue: the task takes
\* it, repeats the test, and sends the request to the feed or releases the lock
Wake(t) ==
    /\ tasks[t].pc = "waiting"
    /\ LET r == tasks[t].resolver
           res == resolvers[r]
       IN  /\ ~res.locked
           /\ res.waiters # <<>>
           /\ Head(res.waiters) = t
           /\ IF double_check(res.last_update, now)
              THEN /\ tasks' = [tasks EXCEPT ![t].pc = "refreshing"]
                   /\ resolvers' = [resolvers EXCEPT ![r].locked = TRUE,
                                                     ![r].waiters = Tail(@)]
              ELSE /\ tasks' = [tasks EXCEPT ![t].pc = "idle",
                                             ![t].outcome = "rechecked"]
                   /\ resolvers' = [resolvers EXCEPT ![r].waiters = Tail(@)]
    /\ UNCHANGED <<server, now, cache_enabled, memory_cache, redis, registry, last_update,
                   pc, request, loc, response, hist, nreq, memo, cop, cin, cout>>

\* the rest of _update_registry with a suspension between the writing of the
\* entries and the end of the refresh
RefreshDoneInSteps(t, reply) ==
    /\ tasks[t].pc = "refreshing"
    /\ LET r == tasks[t].resolver
           res == resolvers[r]
           updated == update_registry(res.registry, res.last_update, now, reply)
       IN  IF tasks[t].reply = None
           THEN /\ resolvers' = [resolvers EXCEPT ![r].registry = updated.registry]
                /\ tasks' = [tasks EXCEPT ![t].reply = reply]
           ELSE /\ resolvers' = [resolvers EXCEPT ![r].last_update = [utc |-> now],
                                                  ![r].locked = FALSE]
                /\ tasks' = [tasks EXCEPT ![t].pc = "idle",
                                          ![t].outcome = "refreshed"]
    /\ UNCHANGED <<server, now, cache_enabled, memory_cache, redis, registry, last_update,
                   pc, request, loc, response, hist, nreq, memo, cop, cin, cout>>

\* the rest of _update_registry under a lock that is released only at the end
\* of a refresh that succeeded
RefreshDoneKeepingLock(t, reply) ==
    /\ tasks[t].pc = "refreshing"
    /\ LET r == tasks[t].resolver
           res == resolvers[r]
           updated == update_registry(res.registry, res.last_update, now, reply)
       IN  /\ resolvers' = [resolvers EXCEPT ![r].registry = updated.registry,
                                             ![r].last_update = updated.last_update,
                                             ![r].locked = reply.raised \/ reply.status # 200]
           /\ tasks' = [tasks EXCEPT ![t].pc = "idle", ![t].outcome = "refreshed",
                                     ![t].reply = reply]
    /\ UNCHANGED <<server, now, cache_enabled, memory_cache, redis, registry, last_update,
                   pc, request, loc, response, hist, nreq, memo, cop, cin, cout>>

\* the feed's answer arrives: the rest of _update_registry, and the release
\* of the lock
RefreshDone(t, reply) ==
    /\ tasks[t].pc = "refreshing"
    /\ LET r == tasks[t].resolver
           res == resolvers[r]
           updated == update_registry(res.registry, res.last_update, now, reply)
       IN  /\ resolvers' = [resolvers EXCEPT ![r].registry = updated.registry,
                                             ![r].last_update = updated.last_update,
                                             ![r].locked = FALSE]
           /\ tasks' = [tasks EXCEPT ![t].pc = "idle", ![t].outcome = "refreshed",
                                     ![t].reply = reply]
    /\ UNCHANGED <<server, now, cache_enabled, memory_cache, redis, registry, last_update,
                   pc, request, loc, response, hist, nreq, memo, cop, cin, cout>>

\* a server just built, with nothing cached
InitRefresh ==
    /\ InitCache
    /\ cache_enabled = FALSE

NextRefresh ==
    \/ \E t \in Tasks, r \in Resolvers : Call(t, r)
    \/ \E t \in Tasks : Wake(t)
    \/ \E t \in Tasks, reply \in RefreshReplies : RefreshDone(t, reply)
    \/ Tick

SpecRefresh == InitRefresh /\ [][NextRefresh]_vars

\* -------------------------------------------- LibraryResolver: claims

\* the tasks with a request to the feed under way on resolver r
InFlight(r) == {t \in Tasks : tasks[t].pc = "refreshing" /\ tasks[t].resolver = r}

\* C16 as stated: whatever requests the server handles at once, at most one
\* refresh from the feed is under way at any time.
C16_AsStated ==
    Cardinality({t \in Tasks : tasks[t].pc = "refreshing"}) <= 1

\* C17: a refresh of a registry starts only when the registry is stale at
\* that moment (never refreshed, or last refreshed more than one interval
\* ago) and no other refresh of it is under way; a request that waited for
\* the lock and finds the registry fresh once it holds the lock does no
\* refresh and leaves the registry and its timestamp alone.
C17_DoubleChecked ==
    [][\A t \in Tasks :
          LET r == tasks'[t].resolver
          IN  /\ (tasks[t].pc # "refreshing" /\ tasks'[t].pc = "refreshing")
                 => /\ should_update_registry(resolvers[r].last_update, now)
                    /\ InFlight(r) = {}
              /\ (/\ tasks[t].pc = "waiting" /\ tasks'[t].pc # "waiting"
                  /\ ~should_update_registry(resolvers[r].last_update, now))
                 => /\ tasks'[t].pc = "idle"
                    /\ tasks'[t].outcome = "rechecked"
                    /\ resolvers'[r].registry = resolvers[r].registry
                    /\ resolvers'[r].last_update = resolvers[r].last_update]_vars

\* a request that found the registry stale, waited for the lock, and did no
\* refresh because the holder's refresh had succeeded
C17_Witness ==
    \E t \in Tasks :
        /\ tasks[t].pc = "idle" /\ tasks[t].waited /\ tasks[t].outcome = "rechecked"
        /\ resolvers[tasks[t].resolver].last_update # None

\* whether the feed could not be fetched or its top-level document is no
\* JSON object
FeedFailed(reply) ==
    reply.raised \/ reply.status # 200 \/ ~reply.json.dict

\* C18 as stated: a refresh advances the timestamp only when the feed was
\* fetched and its top-level document parsed; after a network error, a
\* status other than 200 or a malformed top-level document the timestamp is
\* unchanged, so that the next call finds the registry stale again.
C18_AsStated ==
    [][\A t \in Tasks :
          (tasks[t].pc = "refreshing" /\ tasks'[t].pc = "idle"
           /\ FeedFailed(tasks'[t].reply))
          => LET r == tasks[t].resolver
             IN  /\ resolvers'[r].last_update = resolvers[r].last_update
                 /\ should_update_registry(resolvers'[r].last_update, now)]_vars

\* the ids a lookup may ask for
LookupIds == {ID_REACT, ID_XY, Lower(NAME_XY), ID_REACT_X}

\* C19: a refresh that fails (feed unreachable, status other than 200,
\* malformed top-level document) leaves the registry as it was: the same
\* records under the same keys, and every lookup answers as before.
C19_FailSoft ==
    [][\A t \in Tasks :
          (tasks[t].pc = "refreshing" /\ tasks'[t].pc = "idle"
           /\ FeedFailed(tasks'[t].reply))
          => LET r == tasks[t].resolver
             IN  /\ resolvers'[r].registry = resolvers[r].registry
                 /\ \A library_id \in LookupIds :
                       registry_get(resolvers'[r].registry, library_id)
                       = registry_get(resolvers[r].registry, library_id)]_vars

\* a refresh has just failed on a malformed top-level document, on a
\* registry that an earlier refresh had added a library to
C19_Witness ==
    \E t \in Tasks :
        /\ tasks[t].pc = "idle" /\ tasks[t].outcome = "refreshed"
        /\ ~tasks[t].reply.raised /\ tasks[t].reply.status = 200
        /\ ~tasks[t].reply.json.dict
        /\ registry_get(resolvers[tasks[t].resolver].registry, ID_XY) # None

\* C20 as stated: a refresh skips a malformed entry of the feed's list,
\* whatever its shape, and upserts every well-formed entry before and after it.
C20_AsStated ==
    [][\A t \in Tasks :
          (tasks[t].pc = "refreshing" /\ tasks'[t].pc = "idle"
           /\ ~FeedFailed(tasks'[t].reply))
          => LET r == tasks[t].resolver
                 libraries == tasks'[t].reply.json.libraries
             IN  \A i \in DOMAIN libraries :
                    ValidLibData(libraries[i])
                    => registry_get(resolvers'[r].registry, libraries[i].fields.id)
                       = LibraryOfData(libraries[i].fields)]_vars

\* C21: in every state, before any refresh and after any refreshes, failed
\* or not, a lookup by id finds a record for each built-in library, and no
\* step removes a key from a registry.
C21_SeedsStay ==
    [][\A r \in Resolvers :
          /\ DictKeys(resolvers[r].registry) \subseteq DictKeys(resolvers'[r].registry)
          /\ \A i \in DOMAIN builtin_libraries :
                /\ registry_get(resolvers[r].registry, builtin_libraries[i].id) # None
                /\ registry_get(resolvers'[r].registry, builtin_libraries[i].id) # None]_vars

\* a refresh has applied a feed that has none of the built-in libraries
C21_Witness ==
    \E t \in Tasks :
        /\ tasks[t].pc = "idle" /\ tasks[t].outcome = "refreshed"
        /\ ~FeedFailed(tasks[t].reply)
        /\ \A i \in DOMAIN tasks[t].reply.json.libraries :
              LET lib_data == tasks[t].reply.json.libraries[i]
              IN  ValidLibData(lib_data)
                  => \A j \in DOMAIN builtin_libraries :
                        lib_data.fields.id # builtin_libraries[j].id
        /\ registry_get(resolvers[tasks[t].resolver].registry, ID_XY) # None

\* C22 as stated: in every state, for every record held in a registry, the
\* lookup under the record's id and the lookup under its lower-cased name
\* both return that record.
C22_AsStated ==
    \A r \in Resolvers :
        \A i \in DOMAIN resolvers[r].registry :
            LET library == resolvers[r].registry[i].data
            IN  /\ registry_get(resolvers[r].registry, library.id) = library
                /\ registry_get(resolvers[r].registry, Lower(library.name)) = library

\* C23: a lookup never sees a registry that a refresh has partly written. A
\* registry changes only in the one step that ends the refresh in flight on
\* it, and no request completes its lookup on a registry while a refresh of
\* that registry is in flight: it waits for the lock and then sees what the
\* refresh left.
C23_Snapshot ==
    [][\A r \in Resolvers :
          /\ resolvers'[r].registry # resolvers[r].registry
             => \E t \in InFlight(r) :
                   /\ tasks'[t].pc = "idle"
                   /\ ~resolvers'[r].locked
          /\ \A t \in Tasks :
                (/\ tasks'[t].pc = "idle" /\ tasks'[t].resolver = r
                 /\ tasks'[t] # tasks[t])
                => InFlight(r) \ {t} = {}]_vars

\* a request that arrived while a refresh was in flight, waited for it, and
\* then found the feed's library under both of its keys
C23_Witness ==
    \E t \in Tasks :
        /\ tasks[t].pc = "idle" /\ tasks[t].waited /\ tasks[t].outcome = "rechecked"
        /\ registry_get(resolvers[tasks[t].resolver].registry, ID_XY) # None
        /\ registry_get(resolvers[tasks[t].resolver].registry, Lower(NAME_XY))
           = registry_get(resolvers[tasks[t].resolver].registry, ID_XY)

\* ----------------------------------------- LibraryResolver.resolve_library

\* "score >= 60"
MIN_SCORE == 60

\* the characters of \w
WORD_CHARS ==
    {LOWER[i] : i \in 1..26} \cup {UPPER[i] : i \in 1..26}
    \cup {"0", "1", "2", "3", "4", "5", "6", "7", "8", "9", "_"}

RECURSIVE LStrip(_)
LStrip(s) == IF s # <<>> /\ IsSpace(Head(s)) THEN LStrip(Tail(s)) ELSE s
RECURSIVE RStrip(_)
RStrip(s) ==
    IF s # <<>> /\ IsSpace(s[Len(s)]) THEN RStrip(SubSeq(s, 1, Len(s) - 1)) ELSE s
\* str.strip()
Strip(s) == RStrip(LStrip(s))

\* fuzzywuzzy's default processor, which process.extract applies to the query
\* and to every choice: every character that is no letter, digit or
\* underscore becomes a space, then lower-cased and stripped
full_process(s) ==
    Strip(Lower([i \in 1..Len(s) |-> IF s[i] \in WORD_CHARS THEN s[i] ELSE " "]))

\* fuzz.ratio on the processed query and the processed choice: 100 for equal
\* strings, 0 when one is empty; otherwise what the string matcher answers,
\* here scorer.high for the choices in scorer.similar and scorer.low for the
\* others
ratio(processed_query, choice, scorer) ==
    LET processed == full_process(choice)
    IN  IF processed_query = processed THEN 100
        ELSE IF processed_query = <<>> \/ processed = <<>> THEN 0
        ELSE IF choice \in scorer.similar THEN scorer.high
        ELSE scorer.low

RECURSIVE score_choices(_, _, _)
\* the (choice, score) pairs of process.extract, in the order of the choices
score_choices(processed_query, choices, scorer) ==
    IF choices = <<>> THEN <<>>
    ELSE <<[choice |-> Head(choices),
            score |-> ratio(processed_query, Head(choices), scorer)]>>
         \o score_choices(processed_query, Tail(choices), scorer)

RECURSIVE negated_scores(_)
\* the sort keys that put the best score first
negated_scores(scored) ==
    IF scored = <<>> THEN <<>>
    ELSE <<0 - Head(scored).score>> \o negated_scores(Tail(scored))

\* process.extract(query, choices, limit=limit, scorer=fuzz.ratio): the
\* limit best (choice, score) pairs, best first, equal scores in list order
extract(query, choices, limit, scorer) ==
    LET scored == score_choices(full_process(query), choices, scorer)
    IN  Prefix(StableSort(scored, negated_scores(scored)), limit)

\* self._registry.values()
DictValues(reg) == [i \in 1..Len(reg) |-> reg[i].data]

\* the exact match looked up under the query as a key only
find_exact_match_by_key(reg, query) ==
    IF query \in DictKeys(reg) THEN DictGet(reg, query) ELSE None

\* the exact match of resolve_library
find_exact_match(reg, query) ==
    IF query \in DictKeys(reg) THEN DictGet(reg, query)
    ELSE LET hits == {i \in 1..Len(reg) :
                         \/ Lower(reg[i].data.name) = query
                         \/ Lower(reg[i].data.id) = query
                         \/ EndsWith(Lower(reg[i].data.id), <<"/">> \o query)}
         IN  IF hits = {} THEN None
             ELSE reg[CHOOSE i \in hits : \A j \in hits : i <= j].data

RECURSIVE add_name_matches(_, _, _)
\* the loop over name_matches; acc is [all_matches, seen_ids]
add_name_matches(reg, name_matches, acc) ==
    IF name_matches = <<>> THEN acc
    ELSE LET match == Head(name_matches)
             hits == {i \in 1..Len(reg) :
                         /\ reg[i].data.name = match.choice
                         /\ reg[i].data.id \notin acc.seen_ids}
             library == reg[CHOOSE i \in hits : \A j \in hits : i <= j].data
         IN  IF match.score >= MIN_SCORE /\ hits # {}
             THEN add_name_matches(reg, Tail(name_matches),
                      [all_matches |-> Append(acc.all_matches, library),
                       seen_ids |-> acc.seen_ids \cup {library.id}])
             ELSE add_name_matches(reg, Tail(name_matches), acc)

RECURSIVE add_id_matches(_, _, _)
\* the loop over id_matches
add_id_matches(reg, id_matches, acc) ==
    IF id_matches = <<>> THEN acc
    ELSE LET match == Head(id_matches)
         IN  IF /\ match.score >= MIN_SCORE
                /\ match.choice \notin acc.seen_ids
                /\ match.choice \in DictKeys(reg)
             THEN LET library == DictGet(reg, match.choice)
                  IN  add_id_matches(reg, Tail(id_matches),
                          [all_matches |-> Append(acc.all_matches, library),
                           seen_ids |-> acc.seen_ids \cup {library.id}])
             ELSE add_id_matches(reg, Tail(id_matches), acc)

\* all_matches.sort(key=lambda x: x.popularity_score, reverse=True)
sort_by_popularity(all_matches) ==
    StableSort(all_matches,
               [i \in 1..Len(all_matches) |-> 0 - all_matches[i].popularity_score])

\* max(...) of a non-empty list of scored pairs
MaxScore(matches) ==
    LET scores == {matches[i].score : i \in 1..Len(matches)}
    IN  CHOOSE m \in scores : \A n \in scores : n <= m

\* resolve_library once the registry is up to date; confidence_score is in
\* hundredths
resolve_library(reg, library_name, scorer) ==
    LET query == Strip(Lower(library_name))
        exact_match == find_exact_match(reg, query)
        values == DictValues(reg)
        library_names == [i \in 1..Len(values) |-> values[i].name]
        library_ids == [i \in 1..Len(values) |-> values[i].id]
        name_matches == extract(query, library_names, ExtractLimit, scorer)
        id_matches == extract(query, library_ids, ExtractLimit, scorer)
        named == add_name_matches(reg, name_matches,
                                  [all_matches |-> <<>>, seen_ids |-> {}])
        all_matches == sort_by_popularity(
                           add_id_matches(reg, id_matches, named).all_matches)
        confidence == IF exact_match # None THEN 100
                      ELSE IF name_matches \o id_matches # <<>>
                      THEN MaxScore(name_matches \o id_matches)
                      ELSE 0
    IN  [query |-> library_name,
         matches |-> Prefix(all_matches, MatchesLimit),
         exact_match |-> exact_match,
         confidence_score |-> confidence]
\* ------------------------------------------ resolve-library-id requests

ID_Z == <<"/", "Z">>
NAME_LIKE_ID ==
    <<"/", "F", "a", "c", "e", "b", "o", "o", "k", "/", "R", "e", "a", "c",
      "t">>
\* a feed with a library whose display name reads like the id of React
FEED_NAME_IS_ID ==
    [dict |-> TRUE,
     libraries |->
        <<[dict |-> TRUE,
           fields |-> [id |-> ID_Z, name |-> NAME_LIKE_ID,
                       documentation_sources |-> <<>>]]>>]

ResolveReplies ==
    {[raised |-> FALSE, status |-> 503, json |-> None],
     [raised |-> FALSE, status |-> 200, json |-> FEED_DOCUMENT],
     [raised |-> FALSE, status |-> 200, json |-> FEED_NAME_IS_ID]}

Q_REACT_PADDED == <<" ", "R", "e", "a", "c", "t", " ">>
Q_LOWER_Z == <<"/", "z">>
Q_NOTHING == <<"z", "z", "z", "-", "q">>
Queries == {Q_REACT_PADDED, ID_REACT, Q_LOWER_Z, Q_NOTHING}

\* what the string matcher may answer for the pairs that are neither equal
\* nor empty
Scorers ==
    {[similar |-> similar, high |-> high, low |-> low] :
        similar \in {{}, {NAME_REACT}, {NAME_NEXT, NAME_REACT}, {ID_REACT}},
        high \in {MIN_SCORE},
        low \in {30}}

\* a resolve-library-id request served from its arrival to its answer, by the
\* server's own resolver and with no other request under way
Resolve(library_name, reply, scorer) ==
    /\ nreq < MaxRequests
    /\ nreq' = nreq + 1
    /\ \A t \in Tasks : tasks[t].pc = "idle"
    /\ LET res == resolvers[SERVER_RESOLVER]
           fresh == ensure_registry_updated(res.registry, res.last_update, now, reply)
       IN  /\ resolvers' = [resolvers EXCEPT
                              ![SERVER_RESOLVER].registry = fresh.registry,
                              ![SERVER_RESOLVER].last_update = fresh.last_update]
           /\ request' = [library_name |-> library_name, scorer |-> scorer]
           /\ response' = IF fresh.exception # None THEN fresh.exception
                          ELSE [kind |-> "LibraryResolutionResult",
                                result |-> resolve_library(fresh.registry,
                                                           library_name, scorer)]
    /\ UNCHANGED <<server, tasks, now, cache_enabled, memory_cache, redis, registry,
                   last_update, pc, loc, hist, memo, cop, cin, cout>>

InitResolve == InitRefresh

NextResolve ==
    \/ \E library_name \in Queries, reply \in ResolveReplies, scorer \in Scorers :
          Resolve(library_name, reply, scorer)
    \/ Tick

SpecResolve == InitResolve /\ [][NextResolve]_vars
\* ---------------------------------------------- resolve_library: claims

\* the registry the last resolve-library-id request was answered from
ResolvedFrom == resolvers[SERVER_RESOLVER].registry

\* the best score of a library's name and id against the last query
BestScore(library) ==
    LET processed_query == full_process(Strip(Lower(request.library_name)))
    IN  Max2(ratio(processed_query, library.name, request.scorer),
             ratio(processed_query, library.id, request.scorer))

\* the libraries of the registry that reach the threshold for the last query
Reaching ==
    {ResolvedFrom[i].data : i \in {j \in 1..Len(ResolvedFrom) :
                                      BestScore(ResolvedFrom[j].data) >= MIN_SCORE}}

\* C24: whenever the query, trimmed and lower-cased, equals the lower-cased
\* name or id of a library held in the registry, the answer has an exact
\* match and confidence 1.0.
C24_ExactMatch ==
    response # None =>
        LET query == Strip(Lower(request.library_name))
        IN  (\E i \in 1..Len(ResolvedFrom) :
                \/ Lower(ResolvedFrom[i].data.name) = query
                \/ Lower(ResolvedFrom[i].data.id) = query)
            => /\ response.result.exact_match # None
               /\ response.result.confidence_score = 100

\* the query /z has found the library whose id is /Z, which no key equals
C24_Witness ==
    /\ response # None
    /\ request.library_name = Q_LOWER_Z
    /\ Q_LOWER_Z \notin DictKeys(ResolvedFrom)
    /\ response.result.exact_match # None
    /\ response.result.exact_match.id = ID_Z
    /\ response.result.confidence_score = 100

\* C25 as stated: when the query has no exact match and no name or id of the
\* registry reaches a score of 60, the answer has no exact match, no
\* candidates and confidence 0.0.
C25_AsStated ==
    (/\ response # None
     /\ find_exact_match(ResolvedFrom, Strip(Lower(request.library_name))) = None
     /\ Reaching = {})
    => /\ response.result.exact_match = None
       /\ response.result.matches = <<>>
       /\ response.result.confidence_score = 0

\* C26 as stated: every library whose best score, of its name or of its id,
\* is at least 60 is among the candidates, provided no more libraries than
\* the candidates' limit reach that score.
C26_AsStated ==
    (response # None /\ Cardinality(Reaching) <= MatchesLimit)
    => \A library \in Reaching :
          \E i \in 1..Len(response.result.matches) :
              response.result.matches[i].id = library.id

\* C27 as stated: the candidates are at most the limit, no two of them have
\* the same id, and their popularity scores never increase along the list.
C27_AsStated ==
    response # None =>
        LET matches == response.result.matches
        IN  /\ Len(matches) <= MatchesLimit
            /\ \A i, j \in 1..Len(matches) : i < j => matches[i].id # matches[j].id
            /\ \A i, j \in 1..Len(matches) :
                  i < j => matches[i].popularity_score >= matches[j].popularity_score
\* ------------------------------------------- fragments and their quality

\* C28 as stated: every fetched fragment carries the quality score that
\* _calculate_quality_score gives its own text, and _combine_content puts the
\* fragments in descending order of that score: none with a higher score
\* comes after one with a lower score.
C28_AsStated ==
    /\ \A i \in DOMAIN loc.all_content :
          loc.all_content[i].quality_score
          = calculate_quality_score(loc.all_content[i].content)
    /\ LET ordered == sort_by_quality(loc.all_content)
       IN  \A i, j \in DOMAIN ordered :
              i < j => calculate_quality_score(ordered[i].content)
                       >= calculate_quality_score(ordered[j].content)
\* ------------------------------------------------ _truncate_content alone

TEXT_E ==
    <<"k", "k", "k", "k", "k", "k", "k", "k", "k", "k", "k", "k", "\n", "l",
      " ", "m">>
TEXT_F == <<"n", ".", " ", "o", "o", "o", "o", "o", "o", "o", "o", " ", "p">>
Texts == {TEXT_A, TEXT_B, TEXT_C, TEXT_D, TEXT_E, TEXT_F}

\* one call of _truncate_content
Truncate ==
    /\ cout = None
    /\ cout' = [text |-> truncate_content(cin.content, cin.max_tokens)]
    /\ UNCHANGED <<server, resolvers, tasks, now, cache_enabled, memory_cache, redis,
                   registry, last_update, pc, request, loc, response, hist, nreq,
                   memo, cop, cin>>

InitTruncate ==
    /\ now = 0
    /\ cache_enabled = FALSE
    /\ memory_cache = <<>>
    /\ redis = {}
    /\ registry = initialize_builtin_libraries
    /\ last_update = None
    /\ pc = "idle"
    /\ request = None
    /\ loc = NoLocals
    /\ response = None
    /\ hist = NoHistory
    /\ nreq = 0
    /\ resolvers = [r \in Resolvers |-> NewLibraryResolver]
    /\ tasks = [t \in Tasks |-> IdleTask]
    /\ server = NewServer
    /\ memo = <<>>
    /\ cop = None
    /\ \E content \in Texts, max_tokens \in 0..MaxBudget :
          cin = [content |-> content, max_tokens |-> max_tokens]
    /\ cout = None

NextTruncate == Truncate

SpecTruncate == InitTruncate /\ [][NextTruncate]_vars

\* the text up to the end of its n-th token
FirstTokens(content, n) ==
    LET tokens == token_pattern_findall(content)
        ends == {k \in 0..Len(content) :
                    token_pattern_findall(Prefix(content, k)) = Prefix(tokens, n)}
    IN  RStrip(Prefix(content, CHOOSE k \in ends : \A m \in ends : m <= k))

\* whether a line of the text ends between its i-th token and the next
LineEndsAfter(content, i) ==
    LET tokens == token_pattern_findall(content)
        from == Len(FirstTokens(content, i)) + 1
        to == Len(FirstTokens(content, i + 1)) - Len(tokens[i + 1])
    IN  \E k \in from..to : content[k] = "\n"

\* C29 as stated: a text of more than N tokens is cut to its first N tokens,
\* cut back to the last sentence boundary or line boundary among them when
\* that boundary lies in the last fifth of the slice, and is followed by the
\* truncation marker; a text of at most N tokens is returned as it is.
\* Positions are those of the slice as _truncate_content writes it, the
\* tokens one space apart, a line boundary standing where its space is.
C29_AsStated ==
    cout # None =>
        LET tokens == token_pattern_findall(cin.content)
            n == cin.max_tokens
            slice == Join(<<" ">>, Prefix(tokens, n))
            line_ends == {i \in 1..(n - 1) : LineEndsAfter(cin.content, i)}
            last_newline ==
                IF line_ends = {} THEN -1
                ELSE Len(Join(<<" ">>,
                              Prefix(tokens, CHOOSE i \in line_ends :
                                                 \A j \in line_ends : j <= i)))
            boundary == Max2(RFind(slice, "."), last_newline)
            kept == IF 10 * boundary > 8 * Len(slice)
                    THEN Prefix(slice, boundary + 1) ELSE slice
        IN  IF Len(tokens) <= n THEN cout.text = cin.content
            ELSE /\ EndsWith(cout.text, TRUNCATION_MARKER)
                 /\ token_pattern_findall(
                        SubSeq(cout.text, 1, Len(cout.text) - Len(TRUNCATION_MARKER)))
                    = token_pattern_findall(kept)
\* ------------------------------------------- _combine_content called again

\* C30: _combine_content called again with the list the first call has
\* sorted in place, and the same token budget, returns the same text.
C30_Idempotent ==
    (cin # None /\ Len(cout) = MaxCombineCalls)
    => \A k \in DOMAIN cout : cout[k] = cout[1]

\* the first call has reordered the caller's list, and both calls have
\* returned the same non-empty text
C30_Witness ==
    /\ cin # None
    /\ Len(cout) = MaxCombineCalls
    /\ cin.content_list # cin.given
    /\ cout[1] # <<>>
    /\ cout[MaxCombineCalls] = cout[1]

\* ------------------------------------------------ get_library_by_id: keys

\* get_library_by_id on a resolver whose registry is up to date
GetById(r, library_id) == registry_get(resolvers[r].registry, library_id)

\* C35: in every registry the server can have (the seeds and whatever the
\* refreshes added), get_library_by_id(x) gives nothing or a record whose id
\* is x; a display name given in place of an id finds nothing.
C35_AsStated ==
    \A r \in Resolvers :
        \A x \in LookupIds \cup {Lower(NAME_REACT)} \cup DictKeys(resolvers[r].registry) :
            GetById(r, x) # None => GetById(r, x).id = x

\* ------------------------------------- the two resolvers of one server

\* C36: resolve-library-id and get-library-docs see one registry: whenever
\* resolve_library finds an exact match for a query, a fetch_documentation
\* for the id of that match, started in the same state, finds the library,
\* whatever the feed answers to the refresh the fetch itself may attempt.
C36_AsStated ==
    \A q \in Queries \cup {NAME_XY} :
        LET exact_match == find_exact_match(resolvers[SERVER_RESOLVER].registry,
                                            Strip(Lower(q)))
            res == resolvers[FETCHER_RESOLVER]
        IN  exact_match # None
            => \A reply \in RefreshReplies :
                  registry_get(ensure_registry_updated(res.registry, res.last_update,
                                                       now, reply).registry,
                               exact_match.id) # None

\* ------------------------------------------------- sources switched off

\* C37: fetch_documentation never fetches a source whose enabled flag is
\* false, and no such source gives a fragment or an entry of the sources used.
C37_AsStated ==
    /\ \A k \in DOMAIN hist.attempted : hist.attempted[k].source.enabled
    /\ \A k \in DOMAIN hist.attempted :
          ~hist.attempted[k].failed => hist.attempted[k].source.enabled
    /\ \A k \in DOMAIN loc.sources_used :
          \A j \in DOMAIN loc.sorted_sources :
             loc.sorted_sources[j].url = loc.sources_used[k]
             => loc.sorted_sources[j].enabled

\* ------------------------------------------------- results without text

\* C38: a DocumentationResponse that fetch_documentation returns, fresh or
\* from the cache, has a content that is not empty and a token_count above 0.
C38_AsStated ==
    (response # None /\ response.kind = "DocumentationResponse")
    => /\ response.result.content # <<>>
       /\ response.result.token_count > 0

\* ------------------------------------------- failed requests and the cache

\* C39: a fetch_documentation that ends with "Library not found" or "No
\* documentation could be fetched" writes nothing to the cache. Step by step:
\* the cache lookup at the start of a call that misses changes nothing but
\* the call's own key, which it removes when the entry under it has expired;
\* the registry lookup and the fetching of the sources leave both backends as
\* they are; and so does the step that ends the call with an error. (Keys
\* whose time has come leave the Redis server as the clock advances.)
C39_NothingWritten ==
    [][/\ (pc = "idle" /\ pc' = "lookup")
          => LET key == loc'.cache_key
             IN  /\ \/ memory_cache' = memory_cache
                    \/ /\ PastExpiry(key)
                       /\ memory_cache' = DictDel(memory_cache, {key})
                 /\ \/ redis' = redis
                    \/ /\ PastExpiry(key)
                       /\ redis' = RedisDel(redis, {key})
       /\ (pc \in {"lookup", "fetch"} /\ now' = now)
          => (memory_cache' = memory_cache /\ redis' = redis)
       /\ (pc # "idle" /\ pc' = "idle" /\ response'.kind = "ValueError")
          => (memory_cache' = memory_cache /\ redis' = redis)]_vars

\* a call has ended with an error while the cache held an earlier result
C39_Witness ==
    /\ pc = "idle"
    /\ response # None
    /\ response.kind = "ValueError"
    /\ (memory_cache # <<>> \/ redis # {})
    /\ nreq = MaxRequests

\* ------------------------------------------- a caller that stops waiting

\* fetch_documentation takes no timeout (lines 53-58), and its callers pass
\* none: the one way a caller can bound the call is to cancel the coroutine
\* (asyncio.wait_for, Task.cancel). The call is then suspended at one of its
\* awaits (the registry lookup, a source fetch, the cache write), where
\* CancelledError is raised; no handler of fetch_documentation catches it
\* (they catch Exception, lines 113 and 164), so it ends the call, and the
\* fragments gathered in all_content go with the frame.
Timeout ==
    /\ pc \in {"lookup", "fetch", "finish"}
    /\ response' = [kind |-> "CancelledError"]
    /\ pc' = "idle"
    /\ loc' = NoLocals
    /\ UNCHANGED <<server, resolvers, tasks, now, cache_enabled, memory_cache, redis,
                   registry, last_update, request, hist, nreq, memo, cop, cin,
                   cout>>

InitTimeout ==
    /\ InitFetch
    /\ cache_enabled = FALSE

NextTimeout ==
    \/ NextFetch
    \/ Timeout

SpecTimeout == InitTimeout /\ [][NextTimeout]_vars

\* C34: when the caller's timeout fires on a fetch_documentation under way,
\* the call returns the DocumentationResponse built from the fragments
\* gathered so far if there is one, and the no-documentation error otherwise.
C34_AsStated ==
    [][Timeout
       => IF loc.all_content # <<>>
          THEN response' = Returned(DocumentationResponse(request.library_id,
                                        loc.library, loc.all_content,
                                        loc.sources_used, request.topic,
                                        request.max_tokens))
          ELSE response' = ValueError(S_no_documentation \o request.library_id)]_vars

\* ------------------------------------------- Context7MCPServer: messages

\* the texts of core/server.py
M_initialize == <<"i", "n", "i", "t", "i", "a", "l", "i", "z", "e">>
M_tools_list == <<"t", "o", "o", "l", "s", "/", "l", "i", "s", "t">>
M_tools_call == <<"t", "o", "o", "l", "s", "/", "c", "a", "l", "l">>
M_notifications_initialized ==
    <<"n", "o", "t", "i", "f", "i", "c", "a", "t", "i", "o", "n", "s", "/",
      "i", "n", "i", "t", "i", "a", "l", "i", "z", "e", "d">>
M_unknown ==
    <<"u", "n", "k", "n", "o", "w", "n", "/", "m", "e", "t", "h", "o", "d">>
T_resolve_library_id ==
    <<"r", "e", "s", "o", "l", "v", "e", "-", "l", "i", "b", "r", "a", "r",
      "y", "-", "i", "d">>
T_get_library_docs ==
    <<"g", "e", "t", "-", "l", "i", "b", "r", "a", "r", "y", "-", "d", "o",
      "c", "s">>
T_unknown == <<"u", "n", "k", "n", "o", "w", "n", "-", "t", "o", "o", "l">>
A_libraryName == <<"l", "i", "b", "r", "a", "r", "y", "N", "a", "m", "e">>
A_context7CompatibleLibraryID ==
    <<"c", "o", "n", "t", "e", "x", "t", "7", "C", "o", "m", "p", "a", "t",
      "i", "b", "l", "e", "L", "i", "b", "r", "a", "r", "y", "I", "D">>
S_None == <<"N", "o", "n", "e">>
S_method_not_found ==
    <<"M", "e", "t", "h", "o", "d", " ", "n", "o", "t", " ", "f", "o", "u",
      "n", "d", ":", " ">>
S_unknown_tool ==
    <<"U", "n", "k", "n", "o", "w", "n", " ", "t", "o", "o", "l", ":", " ">>
S_internal_error ==
    <<"I", "n", "t", "e", "r", "n", "a", "l", " ", "e", "r", "r", "o", "r",
      ":", " ">>
S_tool_execution_error ==
    <<"T", "o", "o", "l", " ", "e", "x", "e", "c", "u", "t", "i", "o", "n", " ", "e", "r", "r", "o", "r", ":", " ">>
S_library_name_required ==
    <<"E", "r", "r", "o", "r", ":", " ", "l", "i", "b", "r", "a", "r", "y",
      "N", "a", "m", "e", " ", "p", "a", "r", "a", "m", "e", "t", "e", "r", " ", "i", "s", " ", "r", "e", "q", "u", "i", "r", "e", "d">>
S_library_id_required ==
    <<"E", "r", "r", "o", "r", ":", " ", "c", "o", "n", "t", "e", "x", "t",
      "7", "C", "o", "m", "p", "a", "t", "i", "b", "l", "e", "L", "i", "b",
      "r", "a", "r", "y", "I", "D", " ", "p", "a", "r", "a", "m", "e", "t",
      "e", "r", " ", "i", "s", " ", "r", "e", "q", "u", "i", "r", "e", "d">>
S_error_resolving ==
    <<"E", "r", "r", "o", "r", " ", "r", "e", "s", "o", "l", "v", "i", "n",
      "g", " ", "l", "i", "b", "r", "a", "r", "y", ":", " ">>
S_error_fetching ==
    <<"E", "r", "r", "o", "r", " ", "f", "e", "t", "c", "h", "i", "n", "g", " ", "d", "o", "c", "u", "m", "e", "n", "t", "a", "t", "i", "o", "n", ":",
      " ">>
S_no_attribute_get ==
    <<"'", "l", "i", "s", "t", "'", " ", "o", "b", "j", "e", "c", "t", " ",
      "h", "a", "s", " ", "n", "o", " ", "a", "t", "t", "r", "i", "b", "u",
      "t", "e", " ", "'", "g", "e", "t", "'">>
S_no_attribute_lower ==
    <<"'", "N", "o", "n", "e", "T", "y", "p", "e", "'", " ", "o", "b", "j",
      "e", "c", "t", " ", "h", "a", "s", " ", "n", "o", " ", "a", "t", "t",
      "r", "i", "b", "u", "t", "e", " ", "'", "l", "o", "w", "e", "r", "'">>
S_found_exact ==
    <<"F", "o", "u", "n", "d", " ", "e", "x", "a", "c", "t", " ", "m", "a",
      "t", "c", "h", ":", " ">>
S_name == <<"N", "a", "m", "e", ":", " ">>
S_description ==
    <<"D", "e", "s", "c", "r", "i", "p", "t", "i", "o", "n", ":", " ">>
S_found == <<"F", "o", "u", "n", "d", " ">>
S_potential_matches ==
    <<" ", "p", "o", "t", "e", "n", "t", "i", "a", "l", " ", "m", "a", "t",
      "c", "h", "e", "s", ":", "\n", "\n">>
S_no_matches ==
    <<"N", "o", " ", "m", "a", "t", "c", "h", "e", "s", " ", "f", "o", "u",
      "n", "d", " ", "f", "o", "r", " ", "'">>
S_documentation_for ==
    <<"#", " ", "D", "o", "c", "u", "m", "e", "n", "t", "a", "t", "i", "o",
      "n", " ", "f", "o", "r", " ">>
S_topic == <<"*", "*", "T", "o", "p", "i", "c", "*", "*", ":", " ">>
S_sources ==
    <<"\n", "\n", "*", "*", "S", "o", "u", "r", "c", "e", "s", "*", "*", ":",
      "\n">>
S_token_count ==
    <<"\n", "*", "*", "T", "o", "k", "e", "n", " ", "c", "o", "u", "n", "t",
      "*", "*", ":", " ">>
S_cached == <<" ", "(", "c", "a", "c", "h", "e", "d", ")">>

\* str(value) of an f-string, for a str or None
str(value) == IF value = NoneStr THEN S_None ELSE value

\* A JSON value that is an object is [dict |-> TRUE, fields |-> the members];
\* any other JSON value that is not a string or a number (an array, null) is
\* [dict |-> FALSE], on which .get raises AttributeError.
EmptyDict == [dict |-> TRUE, fields |-> <<>>]
NotADict == [dict |-> FALSE]
Dict(fields) == [dict |-> TRUE, fields |-> fields]

\* d.get(key, default) on a dict
dict_get(d, key, default) ==
    IF key \in DOMAIN d.fields THEN d.fields[key] ELSE default

AttributeError(message) == [kind |-> "AttributeError", message |-> message]

\* How a coroutine goes on from where it stands: it returns a value, raises,
\* or awaits a function of the core, whose outcome it is resumed with.
Return(value) == [raised |-> FALSE, awaiting |-> FALSE, value |-> value]
Raise(exception) == [raised |-> TRUE, awaiting |-> FALSE, exception |-> exception]
Await(function, args) ==
    [raised |-> FALSE, awaiting |-> TRUE, function |-> function, args |-> args]

\* MCPToolResult with one text item
MCPToolResult(text, isError) ==
    [content |-> <<[type |-> "text", text |-> text]>>, isError |-> isError]

\* config.py: DEFAULT_TOKEN_LIMIT
DEFAULT_TOKEN_LIMIT == 10000

create_error_response(msg_id, code, message) ==
    [jsonrpc |-> "2.0", id |-> msg_id,
     error |-> [code |-> code, message |-> message]]

handle_initialize(msg_id, params) ==
    [jsonrpc |-> "2.0", id |-> msg_id,
     result |-> [protocolVersion |-> "2024-11-05",
                 capabilities |-> [tools |-> <<>>],
                 serverInfo |-> [name |-> "context7-mcp-server",
                                 version |-> "0.1.0"]]]

\* the tools of self.capabilities, each with the parameters it requires
handle_tools_list(msg_id) ==
    [jsonrpc |-> "2.0", id |-> msg_id,
     result |-> [tools |-> <<[name |-> T_resolve_library_id,
                              required |-> <<A_libraryName>>],
                             [name |-> T_get_library_docs,
                              required |-> <<A_context7CompatibleLibraryID>>]>>]]

\* the lines of the first matches (at most 5) in the text of resolve_library_id;
\* the descriptions of the libraries are not modelled and are left empty
RECURSIVE match_lines(_, _)
match_lines(matches, i) ==
    IF i > Len(matches) \/ i > 5 THEN <<>>
    ELSE IntToStr(i) \o <<".", " ">> \o matches[i].id \o <<"\n">>
         \o <<" ", " ", " ">> \o S_name \o matches[i].name \o <<"\n">>
         \o <<" ", " ", " ">> \o S_description \o <<"\n", "\n">>
         \o match_lines(matches, i + 1)

\* resolve_library_id without the test of libraryName
resolve_library_id_unchecked(arguments, outcome) ==
    IF ~arguments.dict THEN Raise(AttributeError(S_no_attribute_get))
    ELSE LET library_name == dict_get(arguments, "libraryName", NoneStr)
         IN  IF outcome = None
             THEN Await("resolve_library", [library_name |-> library_name])
             ELSE IF outcome.kind # "LibraryResolutionResult"
             THEN Return(MCPToolResult(S_error_resolving \o outcome.message, TRUE))
             ELSE Return(MCPToolResult(S_found_exact, FALSE))

\* resolve_library_id; outcome is what resolve_library returned or raised,
\* None before it has been awaited
resolve_library_id(arguments, outcome) ==
    IF ~arguments.dict THEN Raise(AttributeError(S_no_attribute_get))
    ELSE LET library_name == dict_get(arguments, "libraryName", NoneStr)
         IN  IF ~Truthy(library_name)
             THEN Return(MCPToolResult(S_library_name_required, TRUE))
             ELSE IF outcome = None
             THEN Await("resolve_library", [library_name |-> library_name])
             ELSE IF outcome.kind # "LibraryResolutionResult"
             THEN Return(MCPToolResult(S_error_resolving \o outcome.message, TRUE))
             ELSE LET result == outcome.result
                      response_text ==
                          IF result.exact_match # None
                          THEN S_found_exact \o result.exact_match.id \o <<"\n">>
                               \o S_name \o result.exact_match.name \o <<"\n">>
                               \o S_description
                          ELSE IF result.matches # <<>>
                          THEN S_found \o IntToStr(Len(result.matches))
                               \o S_potential_matches
                               \o match_lines(result.matches, 1)
                          ELSE S_no_matches \o library_name \o <<"'">>
                  IN  Return(MCPToolResult(response_text, FALSE))

\* the "- <source>" lines of get_library_docs; a URL, which the model keeps
\* whole, is one element of the text
RECURSIVE source_lines(_)
source_lines(sources) ==
    IF sources = <<>> THEN <<>>
    ELSE <<"-", " ", Head(sources), "\n">> \o source_lines(Tail(sources))

\* get_library_docs; outcome is what fetch_documentation returned or raised,
\* None before it has been awaited
get_library_docs(arguments, outcome) ==
    IF ~arguments.dict THEN Raise(AttributeError(S_no_attribute_get))
    ELSE LET library_id == dict_get(arguments, "context7CompatibleLibraryID", NoneStr)
             topic == dict_get(arguments, "topic", NoneStr)
             max_tokens == dict_get(arguments, "tokens", DEFAULT_TOKEN_LIMIT)
         IN  IF ~Truthy(library_id)
             THEN Return(MCPToolResult(S_library_id_required, TRUE))
             ELSE IF outcome = None
             THEN Await("fetch_documentation",
                        [library_id |-> library_id, topic |-> topic,
                         max_tokens |-> max_tokens])
             ELSE IF outcome.kind # "DocumentationResponse"
             THEN Return(MCPToolResult(S_error_fetching \o outcome.message, TRUE))
             ELSE LET result == outcome.result
                      response_text ==
                          S_documentation_for \o library_id \o <<"\n", "\n">>
                          \o (IF Truthy(topic)
                              THEN S_topic \o topic \o <<"\n", "\n">> ELSE <<>>)
                          \o result.content
                          \o (IF result.sources # <<>>
                              THEN S_sources \o source_lines(result.sources)
                              ELSE <<>>)
                          \o S_token_count \o IntToStr(result.token_count)
                          \o (IF result.cached THEN S_cached ELSE <<>>)
                  IN  Return(MCPToolResult(response_text, FALSE))

\* handle_tools_call; params.get is outside its try block
handle_tools_call(msg_id, params, outcome) ==
    IF ~params.dict THEN Raise(AttributeError(S_no_attribute_get))
    ELSE LET tool_name == dict_get(params, "name", NoneStr)
             arguments == dict_get(params, "arguments", EmptyDict)
             called == IF tool_name = T_resolve_library_id
                       THEN resolve_library_id(arguments, outcome)
                       ELSE get_library_docs(arguments, outcome)
         IN  IF tool_name \notin {T_resolve_library_id, T_get_library_docs}
             THEN Return(create_error_response(msg_id, -32601,
                                               S_unknown_tool \o str(tool_name)))
             ELSE IF called.awaiting THEN called
             ELSE IF called.raised
             THEN Return(create_error_response(
                             msg_id, -32603,
                             S_tool_execution_error \o called.exception.message))
             ELSE Return([jsonrpc |-> "2.0", id |-> msg_id,
                          result |-> [content |-> called.value.content,
                                      isError |-> called.value.isError]])

\* the branches of handle_message, inside its try block
dispatch(method, msg_id, params, outcome) ==
    IF method = M_initialize THEN Return(handle_initialize(msg_id, params))
    ELSE IF method = M_tools_list THEN Return(handle_tools_list(msg_id))
    ELSE IF method = M_tools_call THEN handle_tools_call(msg_id, params, outcome)
    ELSE IF method = M_notifications_initialized THEN Return(None)
    ELSE Return(create_error_response(msg_id, -32601,
                                      S_method_not_found \o str(method)))

\* handle_message without its try block
handle_message_unguarded(message, outcome) ==
    IF ~message.dict THEN Raise(AttributeError(S_no_attribute_get))
    ELSE dispatch(dict_get(message, "method", NoneStr),
                  dict_get(message, "id", NoneStr),
                  dict_get(message, "params", EmptyDict), outcome)

\* handle_message: how it goes on for a message, given the outcome of the
\* core function it awaits (None: not awaited yet). The three message.get
\* calls are outside its try block.
handle_message(message, outcome) ==
    IF ~message.dict THEN Raise(AttributeError(S_no_attribute_get))
    ELSE LET msg_id == dict_get(message, "id", NoneStr)
             body == dispatch(dict_get(message, "method", NoneStr), msg_id,
                              dict_get(message, "params", EmptyDict), outcome)
         IN  IF body.raised
             THEN Return(create_error_response(
                             msg_id, -32603,
                             S_internal_error \o body.exception.message))
             ELSE body

\* ------------------------------------------------ the messages explored

Message(id, method, params) ==
    Dict([id |-> id, method |-> method, params |-> params])
ToolCall(id, name, arguments) ==
    Message(id, M_tools_call, Dict([name |-> name, arguments |-> arguments]))

\* requests of every method, known or not, with and without id and params;
\* tool calls with the required parameter missing, empty and given, and
\* with params or arguments that are no JSON object; and a message that is
\* a JSON array
Messages ==
    {Message(<<"1">>, M_initialize, EmptyDict),
     Dict([id |-> <<"2">>, method |-> M_tools_list]),
     Dict([method |-> M_notifications_initialized]),
     Message(<<"6">>, M_unknown, EmptyDict),
     Dict([id |-> <<"9">>]),
     Message(<<"3">>, M_tools_call, NotADict),
     Dict([id |-> <<"3">>, method |-> M_tools_call]),
     ToolCall(<<"7">>, T_unknown, EmptyDict),
     ToolCall(<<"4">>, T_resolve_library_id, EmptyDict),
     ToolCall(<<"4">>, T_resolve_library_id, Dict([libraryName |-> <<>>])),
     ToolCall(<<"4">>, T_resolve_library_id, NotADict),
     ToolCall(<<"8">>, T_resolve_library_id, Dict([libraryName |-> ID_REACT])),
     ToolCall(NoneStr, T_resolve_library_id, Dict([libraryName |-> Q_NOTHING])),
     ToolCall(<<"5">>, T_get_library_docs, EmptyDict),
     ToolCall(<<"5">>, T_get_library_docs, Dict([topic |-> TOPIC_X_DEFAULT, tokens |-> 3])),
     ToolCall(<<"5">>, T_get_library_docs, NotADict),
     ToolCall(<<"11">>, T_get_library_docs,
              Dict([context7CompatibleLibraryID |-> ID_REACT,
                    topic |-> TOPIC_X_DEFAULT, tokens |-> 3])),
     ToolCall(<<"12">>, T_get_library_docs,
              Dict([context7CompatibleLibraryID |-> ID_REACT_X])),
     NotADict}

\* what the string matcher answers in these runs
DispatchScorers == {sc \in Scorers : sc.similar \in {{}, {ID_REACT}}}

\* the handler of the last message is suspended at the first await of
\* fetch_documentation
Pending ==
    /\ server.message # None
    /\ pc = "idle"
    /\ response = None
    /\ handle_message(server.message, None).awaiting

\* a message whose handling awaits nothing: handle_message runs to its end
Answer(message) ==
    /\ pc = "idle" /\ ~Pending
    /\ nreq < MaxRequests
    /\ ~handle_message(message, None).awaiting
    /\ nreq' = nreq + 1
    /\ server' = [initialized |->
                     \/ server.initialized
                     \/ /\ message.dict
                        /\ dict_get(message, "method", NoneStr)
                           = M_notifications_initialized,
                  message |-> message]
    /\ response' = None
    /\ UNCHANGED <<resolvers, tasks, now, cache_enabled, memory_cache, redis,
                   registry, last_update, pc, request, loc, hist, memo, cop, cin,
                   cout>>

\* a resolve-library-id call that reaches resolve_library, served from its
\* arrival to its answer by the server's own resolver; library_name.lower()
\* raises on None
ResolveCall(message, reply, scorer) ==
    /\ pc = "idle" /\ ~Pending
    /\ nreq < MaxRequests
    /\ LET first == handle_message(message, None)
       IN  /\ first.awaiting
           /\ first.function = "resolve_library"
           /\ LET library_name == first.args.library_name
                  res == resolvers[SERVER_RESOLVER]
                  fresh == ensure_registry_updated(res.registry, res.last_update,
                                                   now, reply)
              IN  /\ resolvers' = [resolvers EXCEPT
                                     ![SERVER_RESOLVER].registry = fresh.registry,
                                     ![SERVER_RESOLVER].last_update = fresh.last_update]
                  /\ request' = [library_name |-> library_name, scorer |-> scorer]
                  /\ response' =
                        IF fresh.exception # None THEN fresh.exception
                        ELSE IF library_name = NoneStr
                        THEN AttributeError(S_no_attribute_lower)
                        ELSE [kind |-> "LibraryResolutionResult",
                              result |-> resolve_library(fresh.registry,
                                                         library_name, scorer)]
    /\ nreq' = nreq + 1
    /\ server' = [server EXCEPT !.message = message]
    /\ hist' = [NoHistory EXCEPT !.lookups = 1]
    /\ UNCHANGED <<tasks, now, cache_enabled, memory_cache, redis, registry,
                   last_update, pc, loc, memo, cop, cin, cout>>

\* a get-library-docs call that reaches fetch_documentation: the handler is
\* suspended there until the call ends
DocsCall(message) ==
    /\ pc = "idle" /\ ~Pending
    /\ nreq < MaxRequests
    /\ LET first == handle_message(message, None)
       IN  /\ first.awaiting
           /\ first.function = "fetch_documentation"
    /\ server' = [server EXCEPT !.message = message]
    /\ response' = None
    /\ UNCHANGED <<resolvers, tasks, now, cache_enabled, memory_cache, redis,
                   registry, last_update, pc, request, loc, hist, nreq, memo, cop,
                   cin, cout>>

\* fetch_documentation starts with the arguments the handler passes
DocsStart(fail_get, fail_delete) ==
    /\ Pending
    /\ LET args == handle_message(server.message, None).args
       IN  FetchStart(args.library_id, args.topic, args.max_tokens, fail_get,
                      fail_delete)

InitDispatch == InitFetch

NextDispatch ==
    \/ \E message \in Messages : Answer(message)
    \/ \E message \in Messages, reply \in FeedReplies, scorer \in DispatchScorers :
          ResolveCall(message, reply, scorer)
    \/ \E message \in Messages : DocsCall(message)
    \/ \E fail_get \in Failures, fail_delete \in Failures :
          DocsStart(fail_get, fail_delete)
    \/ \E reply \in FeedReplies : Lookup(reply)
    \/ \E web \in WebReplies : FetchSource(web)
    \/ \E fail_set \in Failures, lag \in Lags : Finish(fail_set, lag)
    \/ Tick

SpecDispatch == InitDispatch /\ [][NextDispatch]_vars

\* ------------------------------------------------- the dispatcher: claims

\* the core function the handler of the last message awaited
Awaited == handle_message(server.message, None).function

\* C31: whatever fails among the cache backend, the registry feed and the
\* sources, a fetch_documentation call ends with a DocumentationResponse,
\* with "Library not found" or with "No documentation could be fetched", and
\* nothing else reaches its caller; and resolve_library always returns a
\* LibraryResolutionResult.
C31_FailuresAbsorbed ==
    (pc = "idle" /\ response # None)
    => IF Awaited = "fetch_documentation"
       THEN \/ response.kind = "DocumentationResponse"
            \/ response = ValueError(S_library_not_found \o request.library_id)
            \/ response = ValueError(S_no_documentation \o request.library_id)
       ELSE response.kind = "LibraryResolutionResult"

\* a call has returned a result although a Redis call raised, the refresh of
\* the registry failed and a source failed
C31_Witness ==
    /\ pc = "idle"
    /\ response # None
    /\ response.kind = "DocumentationResponse"
    /\ hist.cache_failed
    /\ hist.lookups = 1 /\ last_update = None
    /\ \E k \in DOMAIN hist.attempted : hist.attempted[k].failed

\* what handle_message returns for the last message, once it has returned
Returns == handle_message(server.message, response)

KnownMethods ==
    {M_initialize, M_tools_list, M_tools_call, M_notifications_initialized}

\* C32: for every message that is a JSON object, handle_message returns and
\* does not raise, whatever the tool did; what it returns for a
\* notifications/initialized message is None, and otherwise a response with
\* the id of the message and either a result or an error that has a code and
\* a message; the code is -32601 for an unknown method and an unknown tool.
C32_Structured ==
    (server.message # None /\ server.message.dict /\ pc = "idle" /\ ~Pending)
    => LET message == server.message
           method == dict_get(message, "method", NoneStr)
           params == dict_get(message, "params", EmptyDict)
       IN  /\ ~Returns.raised
           /\ ~Returns.awaiting
           /\ IF method = M_notifications_initialized
              THEN Returns.value = None
              ELSE /\ Returns.value.jsonrpc = "2.0"
                   /\ Returns.value.id = dict_get(message, "id", NoneStr)
                   /\ ("result" \in DOMAIN Returns.value)
                      # ("error" \in DOMAIN Returns.value)
                   /\ "error" \in DOMAIN Returns.value
                      => /\ Returns.value.error.code \in Int
                         /\ Returns.value.error.message # <<>>
                   /\ (\/ method \notin KnownMethods
                       \/ /\ method = M_tools_call
                          /\ params.dict
                          /\ dict_get(params, "name", NoneStr)
                             \notin {T_resolve_library_id, T_get_library_docs})
                      => /\ "error" \in DOMAIN Returns.value
                         /\ Returns.value.error.code = -32601

\* fetch_documentation has raised while get-library-docs was executed, and
\* the caller has got a result that says so
C32_Witness ==
    /\ pc = "idle"
    /\ response # None
    /\ response.kind = "ValueError"
    /\ ~Returns.raised
    /\ Returns.value.id = <<"12">>
    /\ Returns.value.result.isError

\* the parameter a tool requires, and the tool calls that lack it
RequiredParameter(tool_name) ==
    IF tool_name = T_resolve_library_id THEN "libraryName"
    ELSE "context7CompatibleLibraryID"

MissingParameter(message) ==
    /\ message.dict
    /\ dict_get(message, "method", NoneStr) = M_tools_call
    /\ LET params == dict_get(message, "params", EmptyDict)
       IN  /\ params.dict
           /\ dict_get(params, "name", NoneStr)
              \in {T_resolve_library_id, T_get_library_docs}
           /\ dict_get(params, "arguments", EmptyDict).dict
           /\ RequiredParameter(dict_get(params, "name", NoneStr))
              \notin DOMAIN dict_get(params, "arguments", EmptyDict).fields

\* C33: a tools/call for resolve-library-id without libraryName, or for
\* get-library-docs without context7CompatibleLibraryID, is answered at once
\* with a result whose isError is true and whose text names the parameter,
\* and the registries, the cache and the fetching are left as they were (no
\* refresh is attempted, no cache call made, no source fetched).
C33_MissingParameter ==
    [][\A message \in Messages :
          (/\ MissingParameter(message)
           /\ server'.message = message
           /\ (server' # server \/ nreq' # nreq))
          => /\ UNCHANGED <<resolvers, registry, last_update, memory_cache, redis,
                            hist, pc, loc>>
             /\ LET ret == handle_message(message, response')
                    tool_name == dict_get(dict_get(message, "params", EmptyDict),
                                          "name", NoneStr)
                IN  /\ ~ret.awaiting
                    /\ ~ret.raised
                    /\ "result" \in DOMAIN ret.value
                    /\ ret.value.result.isError
                    /\ Contains(ret.value.result.content[1].text,
                                IF tool_name = T_resolve_library_id
                                THEN A_libraryName
                                ELSE A_context7CompatibleLibraryID)]_vars

\* a get-library-docs call without the library id has been answered, after
\* an earlier call had filled the cache
C33_Witness ==
    /\ server.message # None
    /\ MissingParameter(server.message)
    /\ dict_get(server.message.fields.params, "name", NoneStr) = T_get_library_docs
    /\ pc = "idle"
    /\ nreq = MaxRequests
    /\ (memory_cache # <<>> \/ redis # {})
    /\ Returns.value.result.isError

\* ------------------------------------------------- requests under fairness

\* the requests of the server at once: calls of the two resolvers that
\* queue on their locks, and a fetch_documentation call. The event loop runs
\* every callback that is ready, so a task that can take the lock does, and
\* every network call is assumed to end (with an answer or an exception)
InitLive ==
    /\ InitFetch
    /\ cache_enabled = FALSE

\* a built-in library, and a library of the feed whose budget two sources meet
LiveRequests ==
    {Request(ID_REACT, TOPIC_X_DEFAULT, 3), Request(ID_XY, NoneStr, 7)}

\* the feed raises, or answers with its document
LiveFeedReplies ==
    {[raised |-> TRUE, status |-> 200, json |-> None],
     [raised |-> FALSE, status |-> 200, json |-> FEED_DOCUMENT]}

\* a source that raises and one that answers
LiveWebReplies ==
    {Web(TRUE, NoneStr, NoneStr, NoneStr, NoneStr),
     Web(FALSE, DOC_TEXT, DOC_TEXT, DOC_TEXT, DOC_TEXT)}

NextLive ==
    \/ \E t \in Tasks, r \in Resolvers : nreq < MaxLiveCalls /\ Call(t, r)
    \/ \E t \in Tasks : Wake(t)
    \/ \E t \in Tasks, reply \in LiveFeedReplies : RefreshDone(t, reply)
    \/ \E r \in LiveRequests : FetchStart(r.library_id, r.topic, r.max_tokens, FALSE, FALSE)
    \/ \E reply \in LiveFeedReplies : Lookup(reply)
    \/ \E web \in LiveWebReplies : FetchSource(web)
    \/ Finish(FALSE, 0)

\* Finish(FALSE, 0) is enabled exactly when pc = "finish" (every primed
\* expression of it is defined, and it changes pc), so the first conjunct is
\* WF_vars(Finish(FALSE, 0)) with ENABLED written out
Scheduling ==
    /\ []<>(pc # "finish") \/ []<><<Finish(FALSE, 0)>>_vars
    /\ \A t \in Tasks : WF_vars(Wake(t))
    /\ \A t \in Tasks : WF_vars(\E reply \in LiveFeedReplies : RefreshDone(t, reply))
    /\ WF_vars(\E reply \in LiveFeedReplies : Lookup(reply))
    /\ WF_vars(\E web \in LiveWebReplies : FetchSource(web))

SpecLive == InitLive /\ [][NextLive]_vars /\ Scheduling

\* C40: as long as every network call ends, every request of a resolver and
\* every fetch_documentation call ends, and a lock that is held is released,
\* whatever the feed answers and whoever waits for the lock.
C40_Completes ==
    /\ \A t \in Tasks : (tasks[t].pc # "idle") ~> (tasks[t].pc = "idle")
    /\ \A r \in Resolvers : resolvers[r].locked ~> ~resolvers[r].locked
    /\ (pc # "idle") ~> (pc = "idle")

\* a request that waited for the lock while the holder's refresh failed, did
\* a refresh of its own that failed too, and ended with the registry as built
C40_Witness ==
    \E t \in Tasks :
        /\ tasks[t].pc = "idle" /\ tasks[t].waited /\ tasks[t].outcome = "refreshed"
        /\ tasks[t].reply.raised
        /\ resolvers[tasks[t].resolver].last_update = None
        /\ ~resolvers[tasks[t].resolver].locked

====
